---------------------------- MODULE Spec2Model ----------------------------
(***************************************************************************)
(* Model of the DeobfuscationSort post-processing script (src/main.py and  *)
(* its class-based twin src/determine.py).                                 *)
(*                                                                         *)
(* Strings are sequences of one-character strings, so that scanning,       *)
(* searching, replacing and splitting are computed as the code computes    *)
(* them.  Three specifications share the module:                           *)
(*   SpecSubst  the scan loop of path_subst, one iteration per step;       *)
(*   SpecNorm   the cleanup sequence of construct_path on a string;        *)
(*   Spec       one run of the script: scan loop, move loop, exit status.  *)
(***************************************************************************)
EXTENDS Integers, Sequences, FiniteSets, TLC

VARIABLES
    \* ---- path_subst (SpecSubst)
    path,          \* the sort string handed to path_subst
    mapping,       \* the mapping table (list of entries), sorted in place
    n,             \* scan index, 0-based as in the code
    newpath,       \* list of emitted pieces
    spc,           \* position of path_subst: "sort", "scan", "done", "idle"
    picks,         \* history: for each '%' scanned, its index and the key taken
    warnings,      \* deprecation warnings printed so far (the keys)
    \* ---- cleanup of construct_path (SpecNorm)
    cin,           \* the substituted string the cleanup started from
    cpath,         \* the local "path" of construct_path during the cleanup
    cstage,        \* next cleanup statement: "replace", "up", "upper", "lower",
                   \* "strip", "normpath", "done", "idle"
    cpass,         \* 1: cleanup of cin; 2: cleanup of the first pass's output
    cout1,         \* the output of the first pass
    cvariant,      \* whose construct_path runs: "main" (main.py) or
                   \* "determine" (determine.py, which replaces %up later)
    old_name,      \* the local "old_name" of strip_all, "old_path" of the
                   \* replacement loop, while a loop runs step by step
    \* ---- one run of the script (Spec)
    pc,            \* "scan", "move", "finish", "done", "idle"; during the
                   \* initialisation "required", "options", "initialised",
                   \* "exit" (sys.exit) and "failed" (uncaught exception)
    environ,       \* os.environ: the options present, with their values
    overwrite,     \* NZBPO_OVERWRITE == "yes"
    overwrite_smaller, \* NZBPO_OVERWRITESMALLER == "yes"
    preview,       \* NZBPO_PREVIEW == "yes"
    faulty,        \* files whose stat ("stat") or move ("move") raises
    fs,            \* file system and run lists: disk (path -> file), dirs,
                   \* moved_src_files, moved_dst_files, dupe_separator, and
                   \* the history of file-system calls and decisions
    scan_list,     \* the files os.walk(download_dir) yields, in walk order
    si,            \* scan loop: number of files scanned
    video_files,   \* list of video files to process
    vi,            \* move loop: number of video files processed
    files_moved,   \* flag "anything was moved"
    errors,        \* flag "any error"
    processed,     \* history: the video files the move loop has handled
    failed,        \* history: the files whose processing raised
    exit_status,   \* status handed to sys.exit, 0 while running
    \* ---- the Mapping Builder of construct_path (SpecBuild)
    guess,         \* the guess record: attribute name -> value, absent
                   \* attributes are not in its domain
    type,          \* type = guess.get("vtype"): "movie", "series", "othertv"
    multiple_episodes, \* NZBPO_MULTIPLEEPISODES: "range" or "list"
    episode_separator, \* NZBPO_EPISODESEPARATOR
    bpc,           \* next builder call: "common", "typed", "done", "idle";
                   \* for guess_info "guessit", "guessed", "raised"
    \* ---- the end of construct_path (SpecJoin)
    filename,      \* construct_path's argument, the source path
    dest_dir,      \* the destination directory of the type
    new_path,      \* the local "new_path"
    result,        \* what construct_path returned
    jpc,           \* position: "join", "compare", "returned", "idle"; for
                   \* construct_filename_glob "glob", "globbed"
    \* ---- the dupe separator (SpecSep)
    movies_format, \* NZBPO_MOVIESFORMAT
    series_format, \* NZBPO_SERIESFORMAT
    dupe_separator, \* the global dupe_separator
    \* ---- get_deobfuscated_dirname (SpecDeob, SpecGroup)
    dirname,       \* the local "dirname"
    deobfuscate_words, \* NZBPO_DEOBFUSCATEWORDS, split at the commas
    release_groups, \* NZBPO_RELEASEGROUPS, split at the commas
    title_name,    \* the argument "name": the reference for the letter case
    deob,          \* the returned tuple, as a record
    dpc            \* position: "deobfuscate", "overlay", "terms", "group",
                   \* "done", "idle"

substVars == <<path, mapping, n, newpath, spc, picks, warnings>>

normVars == <<cin, cpath, cstage, cpass, cout1, cvariant, old_name>>

runVars == <<pc, environ, overwrite, overwrite_smaller, preview, faulty, fs, scan_list, si,
             video_files, vi, files_moved, errors, processed, failed, exit_status>>

buildVars == <<guess, type, multiple_episodes, episode_separator, bpc>>

joinVars == <<filename, dest_dir, new_path, result, jpc>>

sepVars == <<movies_format, series_format, dupe_separator>>

deobVars == <<dirname, deobfuscate_words, release_groups, title_name, deob, dpc>>

auxVars == <<buildVars, joinVars, sepVars, deobVars>>

(***************************************************************************)
(* Characters and strings                                                  *)
(***************************************************************************)

\* The printable ASCII characters, code points 32..126 in order (the grave
\* accent, 96, cannot be written in a string literal and is spelled out).
Ascii ==
    <<
       " ", "!", "\"", "#", "$", "%", "&", "'", "(", ")", "*", "+",
       ",", "-", ".", "/", "0", "1", "2", "3", "4", "5", "6", "7",
       "8", "9", ":", ";", "<", "=", ">", "?", "@", "A", "B", "C",
       "D", "E", "F", "G", "H", "I", "J", "K", "L", "M", "N", "O",
       "P", "Q", "R", "S", "T", "U", "V", "W", "X", "Y", "Z", "[",
       "\\", "]", "^", "_", "grave", "a", "b", "c", "d", "e", "f", "g",
       "h", "i", "j", "k", "l", "m", "n", "o", "p", "q", "r", "s",
       "t", "u", "v", "w", "x", "y", "z", "{", "|", "}", "~" >>

\* Position of each character in the table.
AsciiIndex ==
    [c \in {Ascii[i] : i \in 1..Len(Ascii)} |-> CHOOSE i \in 1..Len(Ascii) : Ascii[i] = c]

\* ord(c); "soh" stands for the control character chr(1), which the string
\* literal "DD\1.1" of the case correction holds.
Ord(c) == IF c = "soh" THEN 1 ELSE 31 + AsciiIndex[c]

\* str.upper / str.lower on one character (ASCII letters).
UpperChar(c) == IF Ord(c) \in 97..122 THEN Ascii[Ord(c) - 32 - 31] ELSE c

LowerChar(c) == IF Ord(c) \in 65..90 THEN Ascii[Ord(c) + 32 - 31] ELSE c

Upper(s) == [i \in 1..Len(s) |-> UpperChar(s[i])]

Lower(s) == [i \in 1..Len(s) |-> LowerChar(s[i])]

\* s < t for Python strings: code-point lexicographic, a proper prefix is smaller.
RECURSIVE StrLess(_, _)
StrLess(s, t) ==
    IF t = <<>> THEN FALSE
    ELSE IF s = <<>> THEN TRUE
    ELSE IF Ord(Head(s)) # Ord(Head(t)) THEN Ord(Head(s)) < Ord(Head(t))
    ELSE StrLess(Tail(s), Tail(t))

\* s.startswith(key, i) with a 0-based index i.
StartsWith(s, key, i) ==
    /\ i + Len(key) <= Len(s)
    /\ \A j \in 1..Len(key) : s[i + j] = key[j]

\* "".join(list of strings)
RECURSIVE Join(_)
Join(pieces) ==
    IF pieces = <<>> THEN <<>> ELSE Head(pieces) \o Join(Tail(pieces))

(***************************************************************************)
(* list.sort: Python's sort is stable.  An element is inserted behind      *)
(* every element of the sorted list that does not come after it.           *)
(***************************************************************************)
RECURSIVE InsertByKey(_, _)
InsertByKey(e, s) ==
    IF s = <<>> THEN <<e>>
    ELSE IF StrLess(e.key, Head(s).key) THEN <<e>> \o s
    ELSE <<Head(s)>> \o InsertByKey(e, Tail(s))

RECURSIVE SortByKey(_)
SortByKey(s) ==
    IF s = <<>> THEN <<>>
    ELSE InsertByKey(s[Len(s)], SortByKey(SubSeq(s, 1, Len(s) - 1)))

RECURSIVE InsertByLen(_, _)
InsertByLen(e, s) ==
    IF s = <<>> THEN <<e>>
    ELSE IF Len(e.key) > Len(Head(s).key) THEN <<e>> \o s
    ELSE <<Head(s)>> \o InsertByLen(e, Tail(s))

RECURSIVE SortByLenDesc(_)
SortByLenDesc(s) ==
    IF s = <<>> THEN <<>>
    ELSE InsertByLen(s[Len(s)], SortByLenDesc(SubSeq(s, 1, Len(s) - 1)))

\* A plausible slip: only the alphabetical pass, no length pass.
SortedMappingAlphaOnly(m) == SortByKey(m)

\* mapping.sort(key=t[0]); mapping.sort(key=len(t[0]), reverse=True)
SortedMapping(m) == SortByLenDesc(SortByKey(m))

(***************************************************************************)
(* path_subst                                                              *)
(***************************************************************************)

\* Index (1-based) of the first entry of m whose key matches at n, 0 if none:
\* the for loop over deprecation_support(mapping) with its break.
RECURSIVE FirstMatchFrom(_, _, _, _)
FirstMatchFrom(m, p, i, k) ==
    IF k > Len(m) THEN 0
    ELSE IF StartsWith(p, m[k].key, i) THEN k
    ELSE FirstMatchFrom(m, p, i, k + 1)

FirstMatch(m, p, i) == FirstMatchFrom(m, p, i, 1)

\* str(x) / ".".join(x) of the final map(): a piece is a string or a list.
RECURSIVE JoinDot(_)
JoinDot(parts) ==
    IF parts = <<>> THEN <<>>
    ELSE IF Len(parts) = 1 THEN Head(parts)
    ELSE Head(parts) \o <<".">> \o JoinDot(Tail(parts))

PieceStr(x) == IF x.list THEN JoinDot(x.v) ELSE x.v

RECURSIVE JoinPieces(_)
JoinPieces(pieces) ==
    IF pieces = <<>> THEN <<>>
    ELSE PieceStr(Head(pieces)) \o JoinPieces(Tail(pieces))

\* The return value of path_subst.
SubstResult == JoinPieces(newpath)

\* A plausible slip: a "%" at which nothing matches is skipped.
Lit_skip_percent(c) == [list |-> FALSE, v |-> IF c = "%" THEN <<>> ELSE <<c>>]

\* "result = path[n]": the character as the piece to append.
Lit(c) == [list |-> FALSE, v |-> <<c>>]

\* mapping.sort(...); mapping.sort(...) at the head of path_subst.
SubstSort ==
    /\ spc = "sort"
    /\ mapping' = SortedMapping(mapping)
    /\ spc' = "scan"
    /\ UNCHANGED <<path, n, newpath, picks, warnings>>
    /\ UNCHANGED <<normVars, runVars, auxVars>>

\* One iteration of "while n < plen".
SubstStep ==
    /\ spc = "scan"
    /\ n < Len(path)
    /\ LET c == path[n + 1]
           k == IF c = "%" THEN FirstMatch(mapping, path, n) ELSE 0
       IN  IF k > 0
           THEN /\ n' = n + (Len(mapping[k].key) - 1) + 1
                /\ newpath' = Append(newpath, mapping[k].value)
                /\ warnings' = IF mapping[k].msg
                               THEN Append(warnings, mapping[k].key)
                               ELSE warnings
                /\ picks' = Append(picks, [pos |-> n, key |-> mapping[k].key])
           ELSE /\ n' = n + 1
                /\ newpath' = Append(newpath, Lit(c))
                /\ warnings' = warnings
                /\ picks' = IF c = "%"
                            THEN Append(picks, [pos |-> n, key |-> <<>>])
                            ELSE picks
    /\ UNCHANGED <<path, mapping, spc>>
    /\ UNCHANGED <<normVars, runVars, auxVars>>

\* Loop exit and return.
SubstReturn ==
    /\ spc = "scan"
    /\ n >= Len(path)
    /\ spc' = "done"
    /\ UNCHANGED <<path, mapping, n, newpath, picks, warnings>>
    /\ UNCHANGED <<normVars, runVars, auxVars>>

(***************************************************************************)
(* Inputs of path_subst: templates over a small alphabet, and mapping      *)
(* tables with keys sharing prefixes (%s, %sn, %s.n), a deprecated entry   *)
(* whose value reads like a specifier, a list value and a repeated key.    *)
(***************************************************************************)
MaxTemplateLen == 6

TemplateChars == {"%", "s", "n", ".", "-"}

Templates == UNION {[1..k -> TemplateChars] : k \in 0..MaxTemplateLen}

Entry(k, v, deprecated) ==
    [key |-> k, value |-> [list |-> FALSE, v |-> v], msg |-> deprecated]

E_s   == Entry(<<"%", "s">>, <<"1">>, FALSE)
E_sn  == Entry(<<"%", "s", "n">>, <<"F", "o", "o">>, FALSE)
E_s_n == Entry(<<"%", "s", ".", "n">>, <<"F", ".", "o">>, FALSE)
E_n   == Entry(<<"%", "n">>, <<"%", "s">>, TRUE)
E_qf  == [key |-> <<"%", ".", "n">>,
          value |-> [list |-> TRUE, v |-> <<<<"A">>, <<"B">>>>],
          msg |-> FALSE]

MappingTables ==
    { <<E_sn, E_s>>,
      <<E_s, E_sn>>,
      <<E_sn, E_s_n, E_s, E_n>>,
      <<E_n, E_s, E_qf, E_s_n, E_sn, E_s>> }

(***************************************************************************)
(* Cleanup of construct_path: str.replace, the bracket-case regexes,       *)
(* os.path.splitext, strip_folders and os.path.normpath (POSIX os.path).   *)
(***************************************************************************)

\* The value of an expression bound to a name once: The({e(x) : x \in {v}})
\* is e(v), with v evaluated a single time, as a local variable is.
The(S) == CHOOSE x \in S : TRUE

\* s.replace(old, new) for a non-empty old: leftmost, non-overlapping.
RECURSIVE ReplaceFrom(_, _, _, _)
ReplaceFrom(s, old, new, i) ==
    IF i >= Len(s) THEN <<>>
    ELSE IF StartsWith(s, old, i)
         THEN new \o ReplaceFrom(s, old, new, i + Len(old))
         ELSE <<s[i + 1]>> \o ReplaceFrom(s, old, new, i + 1)

Replace(s, old, new) == ReplaceFrom(s, old, new, 0)

\* REPLACE_AFTER, in the dict's insertion order.
REPLACE_AFTER ==
    << <<<<"(", ")">>, <<>>>>,
       <<<<".", ".">>, <<".">>>>,
       <<<<"_", "_">>, <<"_">>>>,
       <<<<" ", " ">>, <<" ">>>>,
       <<<<"/", "/">>, <<"/">>>>,
       <<<<" ", "-", " ", "-", " ">>, <<" ", "-", " ">>>>,
       <<<<"-", "-">>, <<"-">>>> >>

\* for key, name in REPLACE_AFTER.items(): path = path.replace(key, name)
RECURSIVE ReplaceAfterFrom(_, _)
ReplaceAfterFrom(s, k) ==
    IF k > Len(REPLACE_AFTER) THEN s
    ELSE The({ReplaceAfterFrom(t, k + 1) :
              t \in {Replace(s, REPLACE_AFTER[k][1], REPLACE_AFTER[k][2])}})

ReplaceAfterPass(s) == ReplaceAfterFrom(s, 1)

\* while old_path != path: old_path = path; <one pass>
RECURSIVE ReplaceAfterLoop(_)
ReplaceAfterLoop(s) ==
    LET t == ReplaceAfterPass(s)
    IN  IF t = s THEN s ELSE ReplaceAfterLoop(t)

\* path.replace("%up", "..")
ReplaceUp(s) == Replace(s, <<"%", "u", "p">>, <<".", ".">>)

\* End (0-based, exclusive) of the maximal run of characters other than '{'
\* that starts at index i: what [^{]* can consume from i.
RECURSIVE RunEnd(_, _)
RunEnd(s, i) ==
    IF i >= Len(s) \/ s[i + 1] = "{" THEN i ELSE RunEnd(s, i + 1)

\* _RE_UPPERCASE.search(path), {{([^{]*)}}: the leftmost start, and for it
\* the longest content (greedy, backtracking to the last "}}" of the run).
\* The match as <<start, end>> (0-based, end exclusive), <<>> if none.
UpperMatchAt(s, i) ==
    IF ~StartsWith(s, <<"{", "{">>, i) THEN <<>>
    ELSE LET r == RunEnd(s, i + 2)
             J == {j \in (i + 2)..(r - 2) : s[j + 1] = "}" /\ s[j + 2] = "}"}
         IN  IF J = {} THEN <<>>
             ELSE <<i, (CHOOSE j \in J : \A k \in J : k <= j) + 2>>

RECURSIVE UpperSearchFrom(_, _)
UpperSearchFrom(s, i) ==
    IF i >= Len(s) THEN <<>>
    ELSE IF UpperMatchAt(s, i) # <<>> THEN UpperMatchAt(s, i)
    ELSE UpperSearchFrom(s, i + 1)

\* One iteration of the loop of to_uppercase on a string that has a match.
UpperOnce(s) ==
    LET m == UpperSearchFrom(s, 0)
    IN  SubSeq(s, 1, m[1]) \o Upper(SubSeq(s, m[1] + 3, m[2] - 2))
          \o SubSeq(s, m[2] + 1, Len(s))

RECURSIVE to_uppercase(_)
to_uppercase(s) ==
    IF UpperSearchFrom(s, 0) = <<>> THEN s ELSE to_uppercase(UpperOnce(s))

\* _RE_LOWERCASE.search(path), {([^{]*)}
LowerMatchAt(s, i) ==
    IF ~StartsWith(s, <<"{">>, i) THEN <<>>
    ELSE LET r == RunEnd(s, i + 1)
             J == {j \in (i + 1)..(r - 1) : s[j + 1] = "}"}
         IN  IF J = {} THEN <<>>
             ELSE <<i, (CHOOSE j \in J : \A k \in J : k <= j) + 1>>

RECURSIVE LowerSearchFrom(_, _)
LowerSearchFrom(s, i) ==
    IF i >= Len(s) THEN <<>>
    ELSE IF LowerMatchAt(s, i) # <<>> THEN LowerMatchAt(s, i)
    ELSE LowerSearchFrom(s, i + 1)

\* A plausible slip: the text between the braces is lowercased where it
\* stands and the braces are kept.
LowerOnce_keeping_braces(s) ==
    LET m == LowerSearchFrom(s, 0)
    IN  SubSeq(s, 1, m[1] + 1) \o Lower(SubSeq(s, m[1] + 2, m[2] - 1))
          \o SubSeq(s, m[2], Len(s))

\* One iteration of the loop of to_lowercase on a string that has a match.
LowerOnce(s) ==
    LET m == LowerSearchFrom(s, 0)
    IN  SubSeq(s, 1, m[1]) \o Lower(SubSeq(s, m[1] + 2, m[2] - 1))
          \o SubSeq(s, m[2] + 1, Len(s))

RECURSIVE LowerLoop(_)
LowerLoop(s) ==
    IF LowerSearchFrom(s, 0) = <<>> THEN s ELSE LowerLoop(LowerOnce(s))

\* A plausible slip: the loop alone, stray braces left in place.
to_lowercase_loop_only(s) == LowerLoop(s)

\* to_lowercase: the loop, then "just incase" both braces are removed.
to_lowercase(s) == Replace(Replace(LowerLoop(s), <<"{">>, <<>>), <<"}">>, <<>>)

\* s.rfind(c): 0-based index of the last c, -1 if none.
RFind(s, c) ==
    LET I == {i \in 1..Len(s) : s[i] = c}
    IN  IF I = {} THEN -1 ELSE (CHOOSE i \in I : \A k \in I : k <= i) - 1

\* os.path.splitext (genericpath._splitext with sep "/", no altsep): the
\* last dot of the last component starts the extension unless only dots
\* precede it there.
SplitExt(p) ==
    LET sepIndex == RFind(p, "/")
        dotIndex == RFind(p, ".")
    IN  IF /\ dotIndex > sepIndex
           /\ \E i \in (sepIndex + 1)..(dotIndex - 1) : p[i + 1] # "."
        THEN <<SubSeq(p, 1, dotIndex), SubSeq(p, dotIndex + 1, Len(p))>>
        ELSE <<p, <<>>>>

\* s.lstrip(chars), s.rstrip(chars), s.strip(chars) for a set of characters.
RECURSIVE LStrip(_, _)
LStrip(s, cs) ==
    IF s # <<>> /\ Head(s) \in cs THEN LStrip(Tail(s), cs) ELSE s

RECURSIVE RStrip(_, _)
RStrip(s, cs) ==
    IF s # <<>> /\ s[Len(s)] \in cs THEN RStrip(SubSeq(s, 1, Len(s) - 1), cs) ELSE s

Strip(s, cs) == The({RStrip(t, cs) : t \in {LStrip(s, cs)}})

\* str.strip() without argument: whitespace (the model has only the space).
Whitespace == {" "}

\* s.split("/")
RECURSIVE Split(_, _)
Split(s, sep) ==
    LET I == {i \in 1..Len(s) : s[i] = sep}
    IN  IF I = {} THEN <<s>>
        ELSE LET i == CHOOSE i \in I : \A k \in I : i <= k
             IN  <<SubSeq(s, 1, i - 1)>> \o Split(SubSeq(s, i + 1, Len(s)), sep)

\* sep.join(list)
RECURSIVE JoinWith(_, _)
JoinWith(parts, sep) ==
    IF parts = <<>> THEN <<>>
    ELSE IF Len(parts) = 1 THEN Head(parts)
    ELSE Head(parts) \o <<sep>> \o JoinWith(Tail(parts), sep)

STRIP_AFTER == <<"_", ".", "-">>

\* for strip_char in STRIP_AFTER: x = x.strip().strip(strip_char)
RECURSIVE StripPassFrom(_, _)
StripPassFrom(x, k) ==
    IF k > Len(STRIP_AFTER) THEN x
    ELSE The({StripPassFrom(y, k + 1) :
              y \in {The({Strip(t, {STRIP_AFTER[k]}) : t \in {Strip(x, Whitespace)}})}})

\* strip_all: while old_name != x: old_name = x; <one pass>
RECURSIVE strip_all(_)
strip_all(x) ==
    LET y == StripPassFrom(x, 1)
    IN  IF y = x THEN x ELSE strip_all(y)

\* os.path.normpath (posixpath).
RECURSIVE NormComps(_, _, _)
NormComps(comps, new_comps, initial_slashes) ==
    IF comps = <<>> THEN new_comps
    ELSE LET comp == Head(comps)
             rest == Tail(comps)
             dotdot == <<".", ".">>
         IN  IF comp = <<>> \/ comp = <<".">>
             THEN NormComps(rest, new_comps, initial_slashes)
             ELSE IF \/ comp # dotdot
                     \/ (initial_slashes = 0 /\ new_comps = <<>>)
                     \/ (new_comps # <<>> /\ new_comps[Len(new_comps)] = dotdot)
             THEN NormComps(rest, Append(new_comps, comp), initial_slashes)
             ELSE IF new_comps # <<>>
             THEN NormComps(rest, SubSeq(new_comps, 1, Len(new_comps) - 1),
                            initial_slashes)
             ELSE NormComps(rest, new_comps, initial_slashes)

normpath(p) ==
    IF p = <<>> THEN <<".">>
    ELSE LET initial_slashes ==
                 IF ~StartsWith(p, <<"/">>, 0) THEN 0
                 ELSE IF StartsWith(p, <<"/", "/">>, 0)
                         /\ ~StartsWith(p, <<"/", "/", "/">>, 0)
                      THEN 2 ELSE 1
             joined == JoinWith(NormComps(Split(p, "/"), <<>>, initial_slashes), "/")
             q == [i \in 1..initial_slashes |-> "/"] \o joined
         IN  IF q = <<>> THEN <<".">> ELSE q

\* strip_folders
strip_folders(p) ==
    LET f == Split(Strip(p, {"/"}), "/")
        ps == Strip(p, Whitespace)
        g == IF Len(ps) > 0 /\ ps[1] \in {"/", "\\"} THEN <<<<>>>> \o f ELSE f
    IN  normpath(JoinWith([i \in 1..Len(g) |-> strip_all(g[i])], "/"))

\* path, ext = os.path.splitext(path); path = strip_folders(path); path + ext
StripAroundExt(p) ==
    LET se == SplitExt(p) IN strip_folders(se[1]) \o se[2]

\* The whole cleanup of construct_path of main.py, from the replacement loop
\* to normpath.
Cleanup(s) ==
    normpath(StripAroundExt(to_lowercase(to_uppercase(ReplaceUp(ReplaceAfterLoop(s))))))

\* The same of determine.py: %up is replaced after the stripping.
CleanupDetermine(s) ==
    normpath(ReplaceUp(StripAroundExt(to_lowercase(to_uppercase(ReplaceAfterLoop(s))))))

(***************************************************************************)
(* The cleanup statements of construct_path, one action per statement.     *)
(* A second pass over the first pass's output follows the first.           *)
(***************************************************************************)
\* The loops of the cleanup, one iteration at a time; cstage names the loop
\* while it runs ("while_...") and after it has ended ("after_...").
\* "while old_path != path: old_path = path; for key, name in ...", with
\* old_name for old_path
ReplaceIteration ==
    /\ cstage = "while_replace"
    /\ IF old_name # cpath
       THEN old_name' = cpath /\ cpath' = ReplaceAfterPass(cpath) /\ cstage' = cstage
       ELSE cstage' = "after_replace" /\ UNCHANGED <<cpath, old_name>>
    /\ UNCHANGED <<cin, cpass, cout1, cvariant>>
    /\ UNCHANGED <<substVars, runVars, auxVars>>

\* "while True: m = _RE_UPPERCASE.search(path); if not m: break; path = ..."
UppercaseIteration ==
    /\ cstage = "while_upper"
    /\ IF UpperSearchFrom(cpath, 0) # <<>>
       THEN cpath' = UpperOnce(cpath) /\ cstage' = cstage
       ELSE cstage' = "after_upper" /\ cpath' = cpath
    /\ UNCHANGED <<cin, cpass, cout1, cvariant, old_name>>
    /\ UNCHANGED <<substVars, runVars, auxVars>>

\* "while True: m = _RE_LOWERCASE.search(path); if not m: break; path = ..."
LowercaseIteration ==
    /\ cstage = "while_lower"
    /\ IF LowerSearchFrom(cpath, 0) # <<>>
       THEN cpath' = LowerOnce(cpath) /\ cstage' = cstage
       ELSE cstage' = "after_lower" /\ cpath' = cpath
    /\ UNCHANGED <<cin, cpass, cout1, cvariant, old_name>>
    /\ UNCHANGED <<substVars, runVars, auxVars>>

\* "while old_name != x: old_name = x; for strip_char in STRIP_AFTER: ..."
\* of strip_all, cpath being x.
StripIteration ==
    /\ cstage = "while_strip"
    /\ IF old_name # cpath
       THEN old_name' = cpath /\ cpath' = StripPassFrom(cpath, 1) /\ cstage' = cstage
       ELSE cstage' = "after_strip" /\ UNCHANGED <<cpath, old_name>>
    /\ UNCHANGED <<cin, cpass, cout1, cvariant>>
    /\ UNCHANGED <<substVars, runVars, auxVars>>

\* The statement after each cleanup statement: main.py replaces %up right
\* after the replacement loop, determine.py after the stripping.
StageAfter(variant, stage) ==
    IF variant = "main"
    THEN CASE stage = "replace" -> "up"
           [] stage = "up" -> "upper"
           [] stage = "upper" -> "lower"
           [] stage = "lower" -> "strip"
           [] stage = "strip" -> "normpath"
           [] stage = "normpath" -> "done"
    ELSE CASE stage = "replace" -> "upper"
           [] stage = "upper" -> "lower"
           [] stage = "lower" -> "strip"
           [] stage = "strip" -> "up"
           [] stage = "up" -> "normpath"
           [] stage = "normpath" -> "done"

CleanReplace ==
    /\ cstage = "replace"
    /\ cpath' = ReplaceAfterLoop(cpath)
    /\ cstage' = StageAfter(cvariant, cstage)
    /\ UNCHANGED <<cin, cpass, cout1, cvariant, old_name>>
    /\ UNCHANGED <<substVars, runVars, auxVars>>

CleanUp ==
    /\ cstage = "up"
    /\ cpath' = ReplaceUp(cpath)
    /\ cstage' = StageAfter(cvariant, cstage)
    /\ UNCHANGED <<cin, cpass, cout1, cvariant, old_name>>
    /\ UNCHANGED <<substVars, runVars, auxVars>>

CleanUpper ==
    /\ cstage = "upper"
    /\ cpath' = to_uppercase(cpath)
    /\ cstage' = StageAfter(cvariant, cstage)
    /\ UNCHANGED <<cin, cpass, cout1, cvariant, old_name>>
    /\ UNCHANGED <<substVars, runVars, auxVars>>

CleanLower ==
    /\ cstage = "lower"
    /\ cpath' = to_lowercase(cpath)
    /\ cstage' = StageAfter(cvariant, cstage)
    /\ UNCHANGED <<cin, cpass, cout1, cvariant, old_name>>
    /\ UNCHANGED <<substVars, runVars, auxVars>>

CleanStrip ==
    /\ cstage = "strip"
    /\ cpath' = StripAroundExt(cpath)
    /\ cstage' = StageAfter(cvariant, cstage)
    /\ UNCHANGED <<cin, cpass, cout1, cvariant, old_name>>
    /\ UNCHANGED <<substVars, runVars, auxVars>>

\* The call strip_folders(path) on its own.
StripFolders ==
    /\ cstage = "strip_folders"
    /\ cpath' = strip_folders(cpath)
    /\ cstage' = "stripped"
    /\ UNCHANGED <<cin, cpass, cout1, cvariant, old_name>>
    /\ UNCHANGED <<substVars, runVars, auxVars>>

CleanNormpath ==
    /\ cstage = "normpath"
    /\ cpath' = normpath(cpath)
    /\ cstage' = StageAfter(cvariant, cstage)
    /\ cout1' = IF cpass = 1 THEN cpath' ELSE cout1
    /\ UNCHANGED <<cin, cpass, cvariant, old_name>>
    /\ UNCHANGED <<substVars, runVars, auxVars>>

CleanAgain ==
    /\ cstage = "done"
    /\ cpass = 1
    /\ cpass' = 2
    /\ cstage' = "replace"
    /\ UNCHANGED <<cin, cpath, cout1, cvariant, old_name>>
    /\ UNCHANGED <<substVars, runVars, auxVars>>

(***************************************************************************)
(* Inputs of the cleanup: every string over a small alphabet up to a       *)
(* length, and the strings the documentation uses as examples.             *)
(***************************************************************************)
MaxNormLen == 4

NormChars == {"a", "B", "{", "}", ".", "-", "/", " "}

NormExamples ==
    { <<"{", "{", "F", "o", "o", " ", "B", "a", "r", "}", "}", " ",
        "{", "F", "o", "o", " ", "B", "a", "r", "}">>,
      <<"_", "_", "S", "h", "o", "w", ".", "N", "a", "m", "e", "-", "-">>,
      <<"%", "u", "p", "/", "X", ".", "m">>,
      <<"a", "/", "%", "u", "p", "/", "X", ".", "m">>,
      <<"X", " ", "(", ")", ".", "m">>,
      <<"a", "{", "-", "}", "-", "b">> }

NormInputs == (UNION {[1..k -> NormChars] : k \in 0..MaxNormLen}) \cup NormExamples

\* Inputs of strip_folders: paths of letters, separators and the characters
\* it strips.
MaxStripLen == 5

StripChars == {"a", " ", "_", ".", "-", "/"}

ShowNameExample ==
    <<"_", "_", "S", "h", "o", "w", ".", "N", "a", "m", "e", "-", "-">>

StripInputs == (UNION {[1..k -> StripChars] : k \in 0..MaxStripLen}) \cup {ShowNameExample}

\* Inputs of the case folding alone: strings of letters and braces.
MaxCaseLen == 6

CaseChars == {"a", "B", "{", "}"}

FooBarExample ==
    <<"{", "{", "F", "o", "o", " ", "B", "a", "r", "}", "}", " ",
      "{", "F", "o", "o", " ", "B", "a", "r", "}">>

CaseInputs == (UNION {[1..k -> CaseChars] : k \in 0..MaxCaseLen}) \cup {FooBarExample}

(***************************************************************************)
(* Paths, file system and the collision resolver                           *)
(***************************************************************************)
POSTPROCESS_SUCCESS == 93

POSTPROCESS_NONE == 95

POSTPROCESS_ERROR == 94

\* x in list
InList(x, l) == \E i \in 1..Len(l) : l[i] = x

\* os.path.basename / os.path.dirname (posixpath)
Basename(p) == SubSeq(p, RFind(p, "/") + 2, Len(p))

Dirname(p) ==
    LET head == SubSeq(p, 1, RFind(p, "/") + 1)
    IN  IF head # <<>> /\ \E i \in 1..Len(head) : head[i] # "/"
        THEN RStrip(head, {"/"}) ELSE head

\* str(suffix_num)
RECURSIVE Str(_)
Str(k) ==
    IF k < 10 THEN <<Ascii[17 + k]>> ELSE Str(k \div 10) \o <<Ascii[17 + (k % 10)]>>

\* s.find(x) > -1
Contains(s, x) == \E i \in 0..Len(s) : StartsWith(s, x, i)

\* A plausible slip: the whole template scanned, directories included.
guess_dupe_separator_whole(format) ==
    IF \E x \in {<<"%", ".", "t">>, <<"%", "s", ".", "n">>, <<"%", "s", ".", "N">>} : Contains(format, x) THEN <<".">>
    ELSE IF \E x \in {<<"%", "_", "t">>, <<"%", "s", "_", "n">>, <<"%", "s", "_", "N">>} : Contains(format, x) THEN <<"_">>
    ELSE <<" ">>

\* guess_dupe_separator: the value it leaves in dupe_separator.
guess_dupe_separator(format) ==
    LET format_fname == Basename(format)
    IN  IF \E x \in {<<"%", ".", "t">>, <<"%", "s", ".", "n">>, <<"%", "s", ".", "N">>} :
               Contains(format_fname, x)
        THEN <<".">>
        ELSE IF \E x \in {<<"%", "_", "t">>, <<"%", "s", "_", "n">>, <<"%", "s", "_", "N">>} :
               Contains(format_fname, x)
        THEN <<"_">>
        ELSE <<" ">>

\* os.path.exists(p): a file or a directory
Exists(w, p) == p \in DOMAIN w.disk \/ p \in w.dirs

Op(name, a, b) == [op |-> name, a |-> a, b |-> b]

Raise(w) == [w EXCEPT !.raised = TRUE]

\* os.remove(p): raises for a missing path and for a directory.
os_remove(w, p) ==
    IF p \notin DOMAIN w.disk THEN Raise(w)
    ELSE [w EXCEPT !.disk = [q \in DOMAIN w.disk \ {p} |-> w.disk[q]],
                   !.ops = Append(@, Op("remove", p, <<>>))]

\* The directories os.makedirs(d) would have to exist afterwards.
RECURSIVE DirChain(_)
DirChain(d) ==
    IF d = <<>> \/ d = <<"/">> THEN {}
    ELSE {d} \cup (IF Dirname(d) = d THEN {} ELSE DirChain(Dirname(d)))

\* os.makedirs(d): raises when a component is an existing file.
os_makedirs(w, d) ==
    IF DirChain(d) \cap DOMAIN w.disk # {} \/ d = <<>> THEN Raise(w)
    ELSE [w EXCEPT !.dirs = @ \cup DirChain(d),
                   !.ops = Append(@, Op("makedirs", d, <<>>))]

\* optimized_move(old, new): os.rename, and on OSError copyfile + remove,
\* with the same result.  A missing or unmovable source fails both ways and
\* the exception of copyfile propagates; nothing has changed then.
optimized_move(w, old, new) ==
    IF old \notin DOMAIN w.disk \/ (faulty.kind = "move" /\ old = faulty.file)
    THEN Raise(w)
    ELSE [w EXCEPT !.disk = [q \in (DOMAIN w.disk \ {old}) \cup {new} |->
                                IF q = new THEN w.disk[old] ELSE w.disk[q]],
                   !.ops = Append(@, Op("move", old, new))]

\* The name unique_name tries for suffix_num = k.
SuffixedName(new, sep, k) ==
    LET se == SplitExt(new)
    IN  se[1] \o sep \o <<"(">> \o Str(k) \o <<")">> \o se[2]

\* The while loop of unique_name from suffix_num = k on.
RECURSIVE UniqueFrom(_, _, _)
UniqueFrom(w, new, k) ==
    LET new_name == SuffixedName(new, w.sep, k)
    IN  IF ~Exists(w, new_name) /\ ~InList(new_name, w.mdst)
        THEN new_name
        ELSE UniqueFrom(w, new, k + 1)

\* A plausible slip: the numbering starts at 1.
unique_name_from_1(w, new) == UniqueFrom(w, new, 1)

\* unique_name(new): suffix_num = 2, then the loop.
unique_name(w, new) == UniqueFrom(w, new, 2)

\* A plausible slip of the test in rename: the run's own files are not
\* protected from overwriting.
MayOverwriteAnything(w, new) == overwrite

\* "overwrite and new not in moved_dst_files"
MayOverwrite(w, new) == overwrite /\ ~InList(new, w.mdst)

\* moved_src_files.append(old); moved_dst_files.append(new)
Record(w, old, new) ==
    IF w.raised THEN w
    ELSE [w EXCEPT !.msrc = Append(@, old), !.mdst = Append(@, new)]

\* The statements of rename's "if not preview:" block.
MoveUnlessPreview(w, old, new) ==
    IF preview THEN w
    ELSE The({IF w1.raised THEN w1 ELSE optimized_move(w1, old, new) :
              w1 \in {IF ~Exists(w, Dirname(new))
                      THEN os_makedirs(w, Dirname(new)) ELSE w}})

\* A plausible slip: the move alone, relying on os.rename to replace the
\* target.
OverwriteTargetNoRemove(w, old, new) == optimized_move(w, old, new)

\* "os.remove(new); optimized_move(old, new)"
OverwriteTarget(w, old, new) ==
    The({IF w1.raised THEN w1 ELSE optimized_move(w1, old, new) :
         w1 \in {os_remove(w, new)}})

\* One look-up of a candidate destination, in the order of evaluation:
\* kind "disk" for os.path.exists(p), kind "list" for "p in moved_dst_files".
Probe(w, kind, p) == [w EXCEPT !.probes = Append(@, [kind |-> kind, path |-> p])]

\* A plausible slip: the list is looked up first, the disk only for a path
\* that is not in the list.
is_taken_list_first(w, p) ==
    IF InList(p, w.mdst) THEN Probe(w, "list", p)
    ELSE Probe(Probe(w, "list", p), "disk", p)

\* The look-ups of "os.path.exists(p) or p in moved_dst_files" and of
\* "not os.path.exists(p) and p not in moved_dst_files": the left operand is
\* evaluated first and the right one only when the path is not on disk.
is_taken(w, p) ==
    IF Exists(w, p) THEN Probe(w, "disk", p)
    ELSE Probe(Probe(w, "disk", p), "list", p)

\* The look-up of "overwrite and new not in moved_dst_files".
MayOverwriteProbe(w, new) == IF overwrite THEN Probe(w, "list", new) ELSE w

\* The look-ups of the while loop of unique_name from suffix_num = k on.
RECURSIVE UniqueProbes(_, _, _)
UniqueProbes(w, new, k) ==
    The({IF ~Exists(w, new_name) /\ ~InList(new_name, w.mdst)
         THEN is_taken(w, new_name)
         ELSE UniqueProbes(is_taken(w, new_name), new, k + 1) :
         new_name \in {SuffixedName(new, w.sep, k)}})

\* rename(old, new).  An exception leaves the function at once: the record
\* is returned as it is with raised set.
RECURSIVE rename(_, _, _)
rename(w, old, new) ==
    The({IF Exists(w, new) \/ InList(new, w.mdst)
         THEN IF MayOverwrite(w, new)
              THEN The({Record(w1, old, new) :
                        w1 \in {OverwriteTarget(MayOverwriteProbe(wp, new), old, new)}})
              ELSE The({The({Record(w1, old, new2) :
                             w1 \in {rename(UniqueProbes(MayOverwriteProbe(wp, new), new, 2),
                                            old, new2)}}) :
                        new2 \in {unique_name(w, new)}})
         ELSE The({Record(w1, old, new) : w1 \in {MoveUnlessPreview(wp, old, new)}}) :
         wp \in {is_taken(w, new)}})

\* A call of rename from the move loop or from move_satellites, with its
\* entry in the history: what was asked, what the lists and the disk held,
\* which file-system calls were made and where the file ended.
RenameCall(w, old, new) ==
    The({[w1 EXCEPT !.calls = Append(@,
            [old |-> old, new |-> new, sep |-> w.sep, format |-> w.format,
             onDisk |-> Exists(w, new),
             inMoved |-> InList(new, w.mdst),
             existedBefore |-> DOMAIN w.disk \cup w.dirs,
             mdstBefore |-> w.mdst,
             ops |-> w1.ops,
             probes |-> w1.probes,
             raised |-> w1.raised,
             dst |-> IF w1.raised THEN <<>> ELSE w1.mdst[Len(w1.mdst)]]),
                     !.probes = <<>>] :
         w1 \in {rename([w EXCEPT !.ops = <<>>], old, new)}})

(***************************************************************************)
(* The run: configuration, "keep larger file", satellites, the two loops   *)
(***************************************************************************)
\* NZBPO_VIDEOEXTENSIONS, NZBPO_SATELLITEEXTENSIONS and NZBPO_MINSIZE of the
\* modelled run.  The satellite extension is none of the subtitle extensions
\* and not .nfo, so neither guessit nor the deep scan is consulted for it.
video_extensions == <<<<".", "m">>>>

satellite_extensions == <<<<".", "t">>>>

min_size == 2

satellites == Len(satellite_extensions) > 0

download_dir == <<"d">>

\* The format templates of the modelled configuration, by vtype.
Format(vtype) ==
    CASE vtype = "movie"   -> <<"%", "t", " ", "(", "%", "y", ")">>
      [] vtype = "series"  -> <<"%", "s", "n", "/", "%", "s", ".", "n", ".", "%", "e">>
      [] vtype = "dated"   -> <<"%", "_", "t", "_", "%", "y">>
      [] vtype = "othertv" -> <<"%", ".", "t", "/", "%", "t">>

\* The files of a directory in walk order (sorted by name here).
RECURSIVE SortPaths(_)
SortPaths(S) ==
    IF S = {} THEN <<>>
    ELSE LET m == CHOOSE x \in S : \A y \in S \ {x} : StrLess(x, y)
         IN  <<m>> \o SortPaths(S \ {m})

FilesIn(w, dir) == SortPaths({q \in DOMAIN w.disk : Dirname(q) = dir})

\* The files the glob of construct_filename_glob can match: those of the
\* destination directory with the destination's suffix.
GlobCandidates(w, new) ==
    {q \in DOMAIN w.disk : Dirname(q) = Dirname(new) /\ SplitExt(q)[2] = SplitExt(new)[2]}

Max(S) == IF S = {} THEN 0 ELSE CHOOSE x \in S : \A y \in S : y <= x

\* rename_overwrite_smaller(old, new), matches being what the glob yields.
\* smallest_file is a Path and new a str, so "smallest_file != new" holds.
\* The decision is only reported: os.remove is commented out.
rename_overwrite_smaller(w, old, new, matches) ==
    IF old \notin DOMAIN w.disk THEN Raise(w)
    ELSE LET old_size == w.disk[old].size
             largest_size == Max({w.disk[q].size : q \in matches})
         IN  IF matches # {} /\ old_size > largest_size
             THEN [w EXCEPT !.reports = Append(@, [old |-> old, new |-> new,
                                                   old_size |-> old_size,
                                                   largest_size |-> largest_size])]
             ELSE w

\* The loop of move_satellites over the files of root.
RECURSIVE SatelliteLoop(_, _, _, _)
SatelliteLoop(w, files, base, destbasenm) ==
    IF files = <<>> \/ w.raised THEN w
    ELSE LET fpath == Head(files)
             se == SplitExt(Basename(fpath))
             fbase == se[1]
             fext == se[2]
         IN  The({SatelliteLoop(w1, Tail(files), base, destbasenm) :
                  w1 \in {IF /\ InList(Lower(fext), satellite_extensions)
                             /\ Lower(fbase) = Lower(base)
                          THEN RenameCall(w, fpath, destbasenm \o fext)
                          ELSE w}})

move_satellites(w, videofile, dest) ==
    The({SatelliteLoop(w, files, Basename(SplitExt(videofile)[1]), SplitExt(dest)[1]) :
         files \in {FilesIn(w, Dirname(videofile))}})

\* What the external guesser and the Mapping Builder make of a file in
\* construct_path: an exception, no vtype, or a vtype and a destination.
VTypes == {"movie", "series", "dated", "othertv"}

DestX == <<"M", "/", "X", ".", "m">>

DestInDownloadDir == <<"d", "/", "B", ".", "m">>

\* The vtypes guessed in the modelled runs: one per separator.
GuessedVTypes == {"movie", "series", "dated"}

ConstructOutcomes ==
    {[kind |-> "raise", vtype |-> "", new |-> <<>>],
     [kind |-> "none", vtype |-> "", new |-> <<>>]}
    \cup {[kind |-> "path", vtype |-> t, new |-> DestX] : t \in GuessedVTypes}
    \cup {[kind |-> "path", vtype |-> "movie", new |-> DestInDownloadDir]}

\* What the glob may yield for an outcome: the candidates or none of them,
\* the pattern depending on the guess for the destination.  Only
\* rename_overwrite_smaller asks for it.
GlobResults(w, out) ==
    IF overwrite_smaller /\ out.kind = "path"
    THEN {{}, GlobCandidates(w, out.new)} ELSE {{}}

\* The body of the move loop's try block for one video file.
ProcessOne(w, old_path, out, matches) ==
    IF out.kind = "raise" THEN Raise(w)
    ELSE IF out.kind = "none" THEN w
    ELSE The({IF Upper(old_path) = Upper(out.new) THEN w1
              ELSE The({IF w2.raised \/ ~satellites THEN w2
                        ELSE move_satellites(w2, old_path, out.new) :
                        w2 \in {IF overwrite_smaller
                                THEN rename_overwrite_smaller(w1, old_path, out.new,
                                                              matches)
                                ELSE RenameCall(w1, old_path, out.new)}}) :
              w1 \in {[w EXCEPT !.sep = guess_dupe_separator(Format(out.vtype)),
                                !.format = Format(out.vtype)]}})

\* A plausible slip: the flag follows the last file instead of accumulating.
ErrorsAfterLastOnly(e, raised) == raised

\* "errors = True" in the except clauses.
ErrorsAfter(e, raised) == e \/ raised

\* A plausible slip: the try block around the loop instead of inside it.
NextIndexStopOnError(i, len, raised) == IF raised THEN len ELSE i + 1

\* The for loop goes on with the next file whether or not this one raised.
NextIndex(i, len, raised) == i + 1

\* One iteration of the scan loop.
ScanFile ==
    /\ pc = "scan"
    /\ si < Len(scan_list)
    /\ LET old_path == scan_list[si + 1]
           ext == Lower(SplitExt(Basename(old_path))[2])
           isVideo == InList(ext, video_extensions)
           raised == isVideo /\ faulty.kind = "stat" /\ faulty.file = old_path
           small == fs.disk[old_path].size < min_size
       IN  /\ video_files' = IF isVideo /\ ~raised /\ ~small
                             THEN Append(video_files, old_path) ELSE video_files
           /\ errors' = ErrorsAfter(errors, raised)
           /\ failed' = IF raised THEN failed \cup {old_path} ELSE failed
    /\ si' = si + 1
    /\ UNCHANGED <<pc, environ, overwrite, overwrite_smaller, preview, faulty, fs, scan_list,
                   vi, files_moved, processed, exit_status>>
    /\ UNCHANGED <<substVars, normVars, auxVars>>

\* The scan loop is over; the move loop starts.
ScanDone ==
    /\ pc = "scan"
    /\ si = Len(scan_list)
    /\ pc' = "move"
    /\ UNCHANGED <<environ, overwrite, overwrite_smaller, preview, faulty, fs, scan_list, si,
                   video_files, vi, files_moved, errors, processed, failed, exit_status>>
    /\ UNCHANGED <<substVars, normVars, auxVars>>

\* One iteration of the move loop: the try block and its except clause.
ProcessFile ==
    /\ pc = "move"
    /\ vi < Len(video_files)
    /\ \E out \in ConstructOutcomes :
       \E matches \in GlobResults(fs, out) :
       \E w \in {ProcessOne(fs, video_files[vi + 1], out, matches)} :
         LET old_path == video_files[vi + 1]
         IN  /\ fs' = [w EXCEPT !.raised = FALSE, !.ops = <<>>]
             /\ errors' = ErrorsAfter(errors, w.raised)
             /\ failed' = IF w.raised THEN failed \cup {old_path} ELSE failed
             /\ processed' = Append(processed, old_path)
             /\ vi' = NextIndex(vi, Len(video_files), w.raised)
    /\ UNCHANGED <<pc, environ, overwrite, overwrite_smaller, preview, faulty, scan_list, si,
                   video_files, files_moved, exit_status>>
    /\ UNCHANGED <<substVars, normVars, auxVars>>

\* cleanup_download_dir
cleanup_download_dir(w) ==
    LET files == {q \in DOMAIN w.disk : Dirname(q) = download_dir}
    IN  IF \E q \in files : /\ w.disk[q].size >= min_size
                            /\ (~preview \/ ~InList(q, w.msrc))
        THEN w
        ELSE IF preview THEN w
        ELSE [w EXCEPT !.disk = [q \in DOMAIN w.disk \ files |-> w.disk[q]],
                       !.dirs = @ \ {download_dir},
                       !.ops = Append(@, Op("rmtree", download_dir, <<>>))]

\* "if errors: ... elif files_moved: ... else: ..."
ExitStatus(e, moved) ==
    IF e THEN POSTPROCESS_ERROR
    ELSE IF moved THEN POSTPROCESS_SUCCESS
    ELSE POSTPROCESS_NONE

\* After the move loop: the cleanup (NZBPO_CLEANUP is read here only) and
\* the exit status.
Finish ==
    /\ pc = "move"
    /\ vi >= Len(video_files)
    /\ \E cleanup \in BOOLEAN :
         fs' = IF cleanup /\ files_moved /\ ~errors
               THEN [cleanup_download_dir(fs) EXCEPT !.ops = <<>>]
               ELSE fs
    /\ exit_status' = ExitStatus(errors, files_moved)
    /\ pc' = "done"
    /\ UNCHANGED <<environ, overwrite, overwrite_smaller, preview, faulty, scan_list, si,
                   video_files, vi, files_moved, errors, processed, failed>>
    /\ UNCHANGED <<substVars, normVars, auxVars>>

(***************************************************************************)
(* The download directory and the destination tree at the start of a run   *)
(***************************************************************************)
MaxVideos == 3

\* The i-th video file of the download directory: d/A.m, d/B.m, ...
Video(i) == <<"d", "/", Ascii[33 + i], ".", "m">>

SmallVideo == <<"d", "/", "s", ".", "m">>

Satellite == <<"d", "/", "a", ".", "t">>

DestSat == <<"M", "/", "X", ".", "t">>

DestX2 == <<"M", "/", "X", " ", "(", "2", ")", ".", "m">>

File(p, size) == [id |-> p, size |-> size]

PreExisting == {{}, {DestX}, {DestX, DestX2, DestSat}}

Faults ==
    {[kind |-> "none", file |-> <<>>],
     [kind |-> "stat", file |-> Video(2)],
     [kind |-> "move", file |-> Video(2)]}

InitialDisk(pre) ==
    LET names == {Video(i) : i \in 1..MaxVideos} \cup {SmallVideo, Satellite} \cup pre
    IN  [q \in names |->
            IF q \in pre THEN File(q, 3)
            ELSE IF q = SmallVideo \/ q = Satellite THEN File(q, 1)
            ELSE File(q, 1 + (CHOOSE i \in 1..MaxVideos : Video(i) = q))]

(***************************************************************************)
(* The Mapping Builder: get_titles, get_decades and the add_*_mapping      *)
(* functions, for a configuration with empty LowerWords and UpperWords.    *)
(***************************************************************************)
\* guess.get(k, d)
Get(g, k, d) == IF k \in DOMAIN g THEN g[k] ELSE d

\* str(guess.get(k, "")) for an attribute whose value is an integer
StrGet(g, k) == IF k \in DOMAIN g THEN Str(g[k]) ELSE <<>>

\* s.rjust(width, fill)
RJust(s, width, fill) == [i \in 1..(width - Len(s)) |-> fill] \o s

\* str.title(): a letter after a non-letter is uppercased, any other letter
\* lowercased.
Title(s) ==
    [i \in 1..Len(s) |->
        IF i = 1 \/ UpperChar(s[i - 1]) = LowerChar(s[i - 1])
        THEN UpperChar(s[i]) ELSE LowerChar(s[i])]

\* get_titles(name, titleing): <<title, dots, underscores>>.  The loops over
\* lower_words and upper_words change nothing for the empty word lists.
get_titles(name, titleing) ==
    LET valid == [i \in 1..Len(name) |->
                    IF name[i] \in {"\"", ":", "?", "*", "\\", "/", "<", ">", "|"}
                    THEN " " ELSE name[i]]
        t1 == Replace(Title(valid), <<"'", "S">>, <<"'", "s">>)
        title == IF ~titleing THEN valid
                 ELSE IF t1 = <<>> THEN t1
                 ELSE Title(<<t1[1]>>) \o Tail(t1)
        d1 == Replace(Replace(Replace(title, <<" ", "-", " ">>, <<"-">>),
                              <<" ">>, <<".">>), <<"_">>, <<".">>)
        dots == RStrip(Replace(Replace(Replace(d1, <<"(">>, <<".">>),
                                       <<")">>, <<".">>), <<".", ".">>, <<".">>), {"."})
        underscores == RStrip(Replace(Replace(Replace(title, <<" ">>, <<"_">>),
                                              <<".">>, <<"_">>),
                                      <<"_", "_">>, <<"_">>), {"_"})
    IN  <<title, dots, underscores>>

\* A plausible slip: the decade of the century-less year for both results.
get_decades_short_only(year) ==
    IF year # <<>> THEN <<SubSeq(year, 3, 3) \o <<"0">>, SubSeq(year, 3, 3) \o <<"0">>>>
    ELSE <<<<>>, <<>>>>

\* get_decades(year): <<decade, decade2>>; slicing a str never raises.
get_decades(year) ==
    IF year # <<>>
    THEN <<SubSeq(year, 3, 3) \o <<"0">>, SubSeq(year, 1, 3) \o <<"0">>>>
    ELSE <<<<>>, <<>>>>

\* The six specifiers made of a name by get_titles, titled and as given.
NameEntries(keys, name) ==
    LET t == get_titles(name, TRUE)
        u == get_titles(name, FALSE)
    IN  <<Entry(keys[1], t[1], FALSE), Entry(keys[2], t[2], FALSE),
          Entry(keys[3], t[3], FALSE), Entry(keys[4], u[1], FALSE),
          Entry(keys[5], u[2], FALSE), Entry(keys[6], u[3], FALSE)>>

\* "for episode_num in episodes" of the list mode: <<all, just>>
RECURSIVE EpisodeListLoop(_, _, _)
EpisodeListLoop(episodes, sep, acc) ==
    IF episodes = <<>> THEN acc
    ELSE LET ep_prefix == IF acc[1] # <<>> THEN sep ELSE <<>>
         IN  EpisodeListLoop(Tail(episodes), sep,
                 <<acc[1] \o ep_prefix \o Head(episodes),
                   acc[2] \o ep_prefix \o RJust(Head(episodes), 2, "0")>>)

\* A plausible slip: the range written with the first two episodes.
MultiEpisodesFirstTwo(episodes, mode, sep) ==
    IF mode = "range"
    THEN <<episodes[1] \o sep \o episodes[2],
           RJust(episodes[1], 2, "0") \o sep \o RJust(episodes[2], 2, "0")>>
    ELSE EpisodeListLoop(episodes, sep, <<<<>>, <<>>>>)

\* The "multi episodes" branch: <<episode_num_all, episode_num_just>>
MultiEpisodes(episodes, mode, sep) ==
    IF mode = "range"
    THEN <<episodes[1] \o sep \o episodes[Len(episodes)],
           RJust(episodes[1], 2, "0") \o sep \o RJust(episodes[Len(episodes)], 2, "0")>>
    ELSE EpisodeListLoop(episodes, sep, <<<<>>, <<>>>>)

\* "year" and "decades" of add_series_mapping and add_movies_mapping
YearAndDecades(g) ==
    LET year == StrGet(g, "year")
        d == get_decades(year)
    IN  <<Entry(<<"%", "y">>, year, FALSE), Entry(<<"%", "d", "e", "c", "a", "d", "e">>, d[1], FALSE),
          Entry(<<"%", "0", "d", "e", "c", "a", "d", "e">>, d[2], FALSE)>>

\* add_series_mapping(guess, mapping): show name, season number, episode
\* names (an absent and an empty title take the else branch), episode number,
\* year and decades.  The episode attribute, when present, is
\* [list |-> is it a list, items |-> its number(s)].
add_series_mapping(g, mode, sep) ==
    LET season_num == StrGet(g, "season")
        episode_num ==
            IF "episode" \notin DOMAIN g THEN <<<<>>, RJust(<<>>, 2, "0")>>
            ELSE IF ~g["episode"].list
            THEN <<Str(g["episode"].items[1]), RJust(Str(g["episode"].items[1]), 2, "0")>>
            ELSE MultiEpisodes([i \in 1..Len(g["episode"].items) |->
                                   Str(g["episode"].items[i])], mode, sep)
    IN  NameEntries(<<<<"%", "s", "n">>, <<"%", "s", ".", "n">>, <<"%", "s", "_", "n">>, <<"%", "s", "N">>, <<"%", "s", ".", "N">>, <<"%", "s", "_", "N">>>>, Get(g, "title", <<>>))
          \o <<Entry(<<"%", "s">>, season_num, FALSE), Entry(<<"%", "0", "s">>, RJust(season_num, 2, "0"), FALSE)>>
          \o NameEntries(<<<<"%", "e", "n">>, <<"%", "e", ".", "n">>, <<"%", "e", "_", "n">>, <<"%", "e", "N">>, <<"%", "e", ".", "N">>, <<"%", "e", "_", "N">>>>,
                         Get(g, "episode_title", <<>>))
          \o <<Entry(<<"%", "e">>, episode_num[1], FALSE), Entry(<<"%", "0", "e">>, episode_num[2], FALSE)>>
          \o YearAndDecades(g)

\* add_movies_mapping(guess, mapping): title, title (short forms), year,
\* decades, imdb.
add_movies_mapping(g) ==
    LET t == get_titles(Get(g, "title", <<>>), TRUE)
        u == get_titles(Get(g, "title", <<>>), FALSE)
    IN  <<Entry(<<"%", "t", "i", "t", "l", "e">>, t[1], FALSE), Entry(<<"%", ".", "t", "i", "t", "l", "e">>, t[2], FALSE),
          Entry(<<"%", "_", "t", "i", "t", "l", "e">>, t[3], FALSE),
          Entry(<<"%", "t">>, t[1], FALSE), Entry(<<"%", ".", "t">>, t[2], FALSE), Entry(<<"%", "_", "t">>, t[3], FALSE),
          Entry(<<"%", "t", "T">>, u[1], FALSE), Entry(<<"%", "t", ".", "T">>, u[2], FALSE), Entry(<<"%", "t", "_", "T">>, u[3], FALSE)>>
          \o YearAndDecades(g)
          \o <<Entry(<<"%", "i", "m", "d", "b">>, Get(g, "imdb", <<>>), FALSE),
               Entry(<<"%", "c", "p", "i", "m", "d", "b">>, Get(g, "cpimdb", <<>>), FALSE)>>

\* add_common_mapping(filename, guess, mapping): "Video information", the
\* entries made of the guess.  (Its other entries are made of the directory
\* name, the file name and the category.)
AddCommonMapping ==
    /\ bpc = "common"
    /\ mapping' = mapping \o
          <<Entry(<<"%", "q", "f">>, Get(guess, "source", <<>>), FALSE),
            Entry(<<"%", "q", "s", "s">>, Get(guess, "screen_size", <<>>), FALSE),
            Entry(<<"%", "q", "v", "c">>, Get(guess, "video_codec", <<>>), FALSE),
            Entry(<<"%", "q", "a", "c">>, Get(guess, "audio_codec", <<>>), FALSE),
            Entry(<<"%", "q", "a", "h">>, Get(guess, "audio_channels", <<>>), FALSE),
            Entry(<<"%", "q", "r", "g">>, Get(guess, "release_group", <<>>), FALSE)>>
    /\ bpc' = "typed"
    /\ UNCHANGED <<path, n, newpath, spc, picks, warnings>>
    /\ UNCHANGED <<guess, type, multiple_episodes, episode_separator>>
    /\ UNCHANGED <<normVars, runVars, joinVars, sepVars, deobVars>>

\* type == "series": add_series_mapping(guess, mapping)
AddSeriesMapping ==
    /\ bpc = "typed"
    /\ type = "series"
    /\ mapping' = mapping \o add_series_mapping(guess, multiple_episodes, episode_separator)
    /\ bpc' = "done"
    /\ UNCHANGED <<path, n, newpath, spc, picks, warnings>>
    /\ UNCHANGED <<guess, type, multiple_episodes, episode_separator>>
    /\ UNCHANGED <<normVars, runVars, joinVars, sepVars, deobVars>>

\* type == "movie" or "othertv": add_movies_mapping(guess, mapping)
AddMoviesMapping ==
    /\ bpc = "typed"
    /\ type \in {"movie", "othertv"}
    /\ mapping' = mapping \o add_movies_mapping(guess)
    /\ bpc' = "done"
    /\ UNCHANGED <<path, n, newpath, spc, picks, warnings>>
    /\ UNCHANGED <<guess, type, multiple_episodes, episode_separator>>
    /\ UNCHANGED <<normVars, runVars, joinVars, sepVars, deobVars>>

(***************************************************************************)
(* The end of construct_path: the destination path and the comparison with *)
(* the source path.                                                        *)
(***************************************************************************)
\* os.path.join(a, *p)
RECURSIVE os_path_join(_, _)
os_path_join(a, p) ==
    IF p = <<>> THEN a
    ELSE LET b == Head(p)
         IN  os_path_join(IF StartsWith(b, <<"/">>, 0) THEN b
                          ELSE IF a = <<>> \/ a[Len(a)] = "/" THEN a \o b
                          ELSE a \o <<"/">> \o b,
                          Tail(p))

\* new_path = os.path.join(dest_dir, *path.split(os.sep)), dest_dir normalised
\* just before.
JoinDestination ==
    /\ jpc = "join"
    /\ cstage = "done"
    /\ new_path' = os_path_join(normpath(dest_dir), Split(cpath, "/"))
    /\ jpc' = "compare"
    /\ UNCHANGED <<filename, dest_dir, result>>
    /\ UNCHANGED <<substVars, normVars, runVars, buildVars, sepVars, deobVars>>

\* A plausible slip: the paths compared as they are.
SameNameExactly(a, b) == a = b

\* filename.upper() == new_path.upper()
SameName(a, b) == Upper(a) = Upper(b)

\* "return None" when the names are the same, "return new_path" otherwise.
CompareNames ==
    /\ jpc = "compare"
    /\ result' = IF SameName(filename, new_path) THEN [kind |-> "none"]
                 ELSE [kind |-> "path", new |-> new_path]
    /\ jpc' = "returned"
    /\ UNCHANGED <<filename, dest_dir, new_path>>
    /\ UNCHANGED <<substVars, normVars, runVars, buildVars, sepVars, deobVars>>

(***************************************************************************)
(* The dupe separator: construct_path calls guess_dupe_separator with the  *)
(* format of the file's type, once for each file.                          *)
(***************************************************************************)
GuessDupeSeparator ==
    /\ \E t \in {"movie", "series"} :
        /\ type' = t
        /\ dupe_separator' =
               guess_dupe_separator(IF t = "movie" THEN movies_format ELSE series_format)
    /\ UNCHANGED <<movies_format, series_format>>
    /\ UNCHANGED <<guess, multiple_episodes, episode_separator, bpc>>
    /\ UNCHANGED <<substVars, normVars, runVars, joinVars, deobVars>>

(***************************************************************************)
(* get_deobfuscated_dirname                                                *)
(***************************************************************************)
\* [0-9a-z] under re.IGNORECASE
IsAlnum(c) == Ord(c) \in (48..57) \cup (65..90) \cup (97..122)

\* (?:\W+(?:words)[a-z0-9]*\W*)* matches the whole of r
RECURSIVE IsNoise(_, _)
IsNoise(r, words) ==
    \/ r = <<>>
    \/ \E k \in 1..Len(r), i \in DOMAIN words :
        /\ \A j \in 1..k : ~(IsAlnum(r[j]) \/ r[j] = "_")
        /\ k + Len(words[i]) <= Len(r)
        /\ Lower(SubSeq(r, k + 1, k + Len(words[i]))) = Lower(words[i])
        /\ \E m \in (k + Len(words[i]))..Len(r) :
            /\ \A j \in (k + Len(words[i]) + 1)..m : IsAlnum(r[j])
            /\ \E l \in m..Len(r) :
                /\ \A j \in (m + 1)..l : ~(IsAlnum(r[j]) \/ r[j] = "_")
                /\ IsNoise(SubSeq(r, l + 1, Len(r)), words)

\* re.sub(deobfuscate_re, r"\1", dirname_clean).  Both patterns match from
\* the start when they match at all, and up to the end: the result is group
\* 1.  Group 1 ends with "-" and a run of [.0-9a-z]; the "-" is the first one
\* that lets the pattern match (.+? is minimal), the run the longest one that
\* does (greedy).  The default pattern lets anything follow, the pattern of
\* the configured words only noise tokens.
deobfuscate_sub(s, words) ==
    LET default == ~(Len(words) > 0 /\ Len(words[1]) > 0)
        M == { pq \in (2..Len(s)) \X (3..Len(s)) :
                 /\ s[pq[1]] = "-"
                 /\ pq[2] > pq[1]
                 /\ \A j \in (pq[1] + 1)..pq[2] : IsAlnum(s[j]) \/ s[j] = "."
                 /\ IF default THEN TRUE
                    ELSE IsNoise(SubSeq(s, pq[2] + 1, Len(s)), words) }
    IN  IF M = {} THEN s
        ELSE LET p == CHOOSE p \in {pq[1] : pq \in M} : \A pq \in M : p <= pq[1]
                 q == CHOOSE q \in {pq[2] : pq \in {x \in M : x[1] = p}} :
                          \A pq \in {x \in M : x[1] = p} : pq[2] <= q
             IN  SubSeq(s, 1, q)

\* The three spellings made of the dirname at the end of the function.
DirnameVariants(d) ==
    [dirname |-> d,
     dots |-> RStrip(Replace(Replace(Replace(
                  Replace(Replace(Replace(d, <<" ", "-", " ">>, <<"-">>), <<" ">>, <<".">>), <<"_">>, <<".">>),
                  <<"(">>, <<".">>), <<")">>, <<".">>), <<".", ".">>, <<".">>), {"."}),
     underscores |-> RStrip(Replace(Replace(Replace(d, <<" ">>, <<"_">>), <<".">>, <<"_">>),
                                    <<"_", "_">>, <<"_">>), {"_"}),
     spaces |-> RStrip(Replace(Replace(Replace(d, <<"_">>, <<" ">>), <<".">>, <<" ">>),
                               <<" ", " ">>, <<" ">>), {" "})]

\* get_deobfuscated_dirname(dirname, deobfuscate_re) without a name
Deobfuscate ==
    /\ dpc = "deobfuscate"
    /\ deob' = DirnameVariants(deobfuscate_sub(Strip(dirname, Whitespace),
                                               deobfuscate_words))
    /\ dpc' = "done"
    /\ UNCHANGED <<dirname, deobfuscate_words, release_groups, title_name>>
    /\ UNCHANGED <<substVars, normVars, runVars, buildVars, joinVars, sepVars>>

\* A plausible slip: the token uppercased, the letter I included.
scene_group_case_upper(token, groups) ==
    IF \E i \in DOMAIN groups : Lower(groups[i]) = Lower(token)
    THEN <<"-">> \o groups[CHOOSE i \in DOMAIN groups :
                              /\ Lower(groups[i]) = Lower(token)
                              /\ \A k \in 1..(i - 1) : Lower(groups[k]) # Lower(token)]
    ELSE <<"-">> \o Upper(token)

\* scene_group_case(match), token being match.group(1): the first configured
\* group that matches the whole token under re.IGNORECASE, as configured;
\* without one, the token uppercased and its I replaced by i.
scene_group_case(token, groups) ==
    IF \E i \in DOMAIN groups : Lower(groups[i]) = Lower(token)
    THEN <<"-">> \o groups[CHOOSE i \in DOMAIN groups :
                              /\ Lower(groups[i]) = Lower(token)
                              /\ \A k \in 1..(i - 1) : Lower(groups[k]) # Lower(token)]
    ELSE <<"-">> \o Replace(Upper(token), <<"I">>, <<"i">>)

\* re.sub(r"-(([A-Za-z0-9]+)|groups)$", scene_group_case, dirname,
\* flags=re.IGNORECASE): the match is the leftmost "-" whose rest, up to the
\* end, is letters and digits or a configured group.
scene_group_sub(d, groups) ==
    LET M == { st \in 1..Len(d) :
                 /\ d[st] = "-"
                 /\ \/ st < Len(d) /\ \A j \in (st + 1)..Len(d) : IsAlnum(d[j])
                    \/ \E i \in DOMAIN groups :
                         Lower(groups[i]) = Lower(SubSeq(d, st + 1, Len(d))) }
    IN  IF M = {} THEN d
        ELSE LET st == CHOOSE x \in M : \A y \in M : x <= y
             IN  SubSeq(d, 1, st - 1)
                   \o scene_group_case(SubSeq(d, st + 1, Len(d)), groups)

\* The last of the terms of the case correction, and the return.
SceneGroupTerm ==
    /\ dpc = "group"
    /\ deob' = DirnameVariants(scene_group_sub(dirname, release_groups))
    /\ dpc' = "done"
    /\ UNCHANGED <<dirname, deobfuscate_words, release_groups, title_name>>
    /\ UNCHANGED <<substVars, normVars, runVars, buildVars, joinVars, sepVars>>

(***************************************************************************)
(* get_deobfuscated_dirname with a name: the letter case of the title      *)
(***************************************************************************)
IsDigit(c) == Ord(c) \in 48..57

\* \w of the regular expressions, for ASCII
IsWord(c) == IsAlnum(c) \/ c = "_"

\* The ends (index of the p) of the matches of \b\d{3,4}p\b that start after
\* the first k characters of s; ic stands for re.IGNORECASE.
MarkerEnds(s, k, ic) ==
    {k + d + 1 : d \in {d \in {3, 4} :
        /\ k + d + 1 <= Len(s)
        /\ \A j \in 1..d : IsDigit(s[k + j])
        /\ s[k + d + 1] = "p" \/ (ic /\ s[k + d + 1] = "P")
        /\ k = 0 \/ ~IsWord(s[k])
        /\ k + d + 1 = Len(s) \/ ~IsWord(s[k + d + 2])}}

\* re.match(case_check_re, dirname): an upper case letter or a digit first,
\* a resolution with a small p after at least two characters, and after it a
\* hyphen followed to the end by letters, digits and hyphens with an upper
\* case letter that is not the first of them.
properly_cased(s) ==
    /\ s # <<>>
    /\ Ord(s[1]) \in (48..57) \cup (65..90)
    /\ \E k \in 2..Len(s) : \E m \in MarkerEnds(s, k, FALSE) :
          \E h \in (m + 1)..Len(s) :
             /\ s[h] = "-"
             /\ \A j \in (h + 1)..Len(s) : IsAlnum(s[j]) \/ s[j] = "-"
             /\ \E u \in (h + 2)..Len(s) : Ord(s[u]) \in 65..90

\* len(title_match.group(1)) of re.search(title_match_re, dirname,
\* flags=re.IGNORECASE): the lazy group ends at the first resolution that
\* has a character before it; -1 stands for no match.
title_match_len(s) ==
    IF \E k \in 1..Len(s) : MarkerEnds(s, k, TRUE) # {}
    THEN CHOOSE k \in 1..Len(s) :
            /\ MarkerEnds(s, k, TRUE) # {}
            /\ \A j \in 1..(k - 1) : MarkerEnds(s, j, TRUE) = {}
    ELSE -1

\* The for loop over range(title_len) and the join with dirname[title_len:]
overlay_loop(d, title, title_len) ==
    [i \in 1..Len(d) |->
        IF i <= title_len /\ d[i] # title[i] /\ LowerChar(d[i]) = LowerChar(title[i])
        THEN title[i] ELSE d[i]]

\* A plausible slip: the title is laid over as far as it goes, the
\* resolution and what follows it included.
title_overlay_whole_title(d, title) ==
    IF title_match_len(d) >= 0
    THEN overlay_loop(d, title, IF Len(title) < Len(d) THEN Len(title) ELSE Len(d))
    ELSE d

\* "if title_match: title_len = min(len(title_match.group(1)), len(title))
\* ..." and its else branch, which leaves dirname as it is.
title_overlay(d, title) ==
    IF title_match_len(d) >= 0
    THEN overlay_loop(d, title, IF title_match_len(d) < Len(title)
                                THEN title_match_len(d) ELSE Len(title))
    ELSE d

\* "if name:" up to the loop over the terms, for the stripped dirname: a
\* properly cased dirname is not touched and skips the terms as well.
CaseOverlay ==
    /\ dpc = "overlay"
    /\ title_name # <<>>
    /\ IF properly_cased(dirname)
       THEN deob' = dirname /\ dpc' = "cased"
       ELSE /\ deob' = title_overlay(dirname, get_titles(title_name, TRUE)[1])
            /\ dpc' = "terms"
    /\ UNCHANGED <<dirname, deobfuscate_words, release_groups, title_name>>
    /\ UNCHANGED <<substVars, normVars, runVars, buildVars, joinVars, sepVars>>

\* The length of the match of pattern pat from its atom j on at offset i of
\* s under re.IGNORECASE, -1 without a match.  An atom is a character, "\\d",
\* "[57]", or one of the greedy optional atoms ".?" and "\\d?" (the fourth
\* digit of \d{3,4}).
RECURSIVE MatchLen(_, _, _, _)
MatchLen(s, i, pat, j) ==
    IF j > Len(pat) THEN 0
    ELSE LET taken == IF i < Len(s) THEN MatchLen(s, i + 1, pat, j + 1) ELSE -1
             ok(fits) == i < Len(s) /\ fits /\ taken >= 0
         IN  CASE pat[j] = ".?" ->
                    IF taken >= 0 THEN taken + 1 ELSE MatchLen(s, i, pat, j + 1)
               [] pat[j] = "\\d?" ->
                    IF i < Len(s) /\ IsDigit(s[i + 1]) /\ taken >= 0 THEN taken + 1
                    ELSE MatchLen(s, i, pat, j + 1)
               [] pat[j] = "\\d" ->
                    IF i < Len(s) /\ IsDigit(s[i + 1]) /\ taken >= 0 THEN taken + 1 ELSE -1
               [] pat[j] = "[57]" ->
                    IF i < Len(s) /\ s[i + 1] \in {"5", "7"} /\ taken >= 0 THEN taken + 1 ELSE -1
               [] OTHER ->
                    IF i < Len(s) /\ LowerChar(s[i + 1]) = LowerChar(pat[j]) /\ taken >= 0
                    THEN taken + 1 ELSE -1

\* The expansion of the replacement template of a term for the matched text
\* m: a literal, or a literal around the text of group 1.
Expand(term, m) ==
    CASE term.repl = "\\1p"      -> SubSeq(m, 1, Len(m) - 1) \o <<"p">>
      [] term.repl = "x\\1"      -> <<"x">> \o Tail(m)
      [] term.repl = "\\1Bit"    -> m \o <<"B", "i", "t">>
      [] term.repl = "Web\\1DL"  -> <<"W", "e", "b">> \o SubSeq(m, 4, Len(m) - 2) \o <<"D", "L">>
      [] term.repl = "Web\\1Rip" -> <<"W", "e", "b">> \o SubSeq(m, 4, Len(m) - 3) \o <<"R", "i", "p">>
      [] OTHER                   -> term.lit

\* re.sub(term[0], term[1], s, flags=re.IGNORECASE) from offset i on: the
\* matches from left to right, none overlapping another.
RECURSIVE TermSubFrom(_, _, _)
TermSubFrom(s, term, i) ==
    IF i >= Len(s) THEN <<>>
    ELSE IF MatchLen(s, i, term.pat, 1) > 0
         THEN Expand(term, SubSeq(s, i + 1, i + MatchLen(s, i, term.pat, 1)))
              \o TermSubFrom(s, term, i + MatchLen(s, i, term.pat, 1))
         ELSE <<s[i + 1]>> \o TermSubFrom(s, term, i + 1)

Term(pat, repl, lit) == [pat |-> pat, repl |-> repl, lit |-> lit]

\* The list "terms" without its last entry, the release group.  "DD\1.1" is
\* no raw string: its \1 is the character chr(1).  In a replacement
\* template "." and "?" stand for themselves.
terms ==
    << Term(<<"\\d", "\\d", "\\d", "\\d?", "p">>, "\\1p", <<>>),
       Term(<<"x", "\\d", "\\d", "\\d", "\\d?">>, "x\\1", <<>>),
       Term(<<"\\d", "\\d", "B", "i", "t">>, "\\1Bit", <<>>),
       Term(<<"B", "l", "u", "R", "a", "y">>, "", <<"B", "l", "u", "R", "a", "y">>),
       Term(<<"W", "e", "b">> \o <<".?">> \o <<"D", "L">>, "Web\\1DL", <<>>),
       Term(<<"W", "e", "b">> \o <<".?">> \o <<"R", "i", "p">>, "Web\\1Rip", <<>>),
       Term(<<"A", "A", "C">>, "", <<"A", "A", "C">>),
       Term(<<"D", "o", "l", "b", "y">>, "", <<"D", "o", "l", "b", "y">>),
       Term(<<"A", "t", "m", "o", "s">>, "", <<"A", "t", "m", "o", "s">>),
       Term(<<"T", "r", "u", "e", "H", "D">>, "", <<"T", "r", "u", "e", "H", "D">>),
       Term(<<"D", "D">> \o <<"[57]", ".?", "1">>, "", <<"D", "D">> \o <<"soh">> \o <<".", "1">>),
       Term(<<"D", "T", "S">> \o <<".?">> \o <<"X">>, "", <<"D", "T", "S", "-", "X">>),
       Term(<<"D", "T", "S">> \o <<".?">> \o <<"H", "D">>, "", <<"D", "T", "S", "-", "H", "D">>),
       Term(<<"D", "T", "S">> \o <<".?">> \o <<"E", "S">>, "", <<"D", "T", "S", "-", "E", "S">>),
       Term(<<"D", "T", "S">> \o <<".?">> \o <<"H", "D">> \o <<".?">> \o <<"M", "A">>, "", <<"D", "T", "S", "-", "H", "D", ".", "?", "M", "A">>) >>

\* "for term in terms: dirname = re.sub(...)" from term k on, the release
\* group last.
RECURSIVE TermsFrom(_, _, _)
TermsFrom(s, groups, k) ==
    IF k > Len(terms) THEN scene_group_sub(s, groups)
    ELSE TermsFrom(TermSubFrom(s, terms[k], 0), groups, k + 1)

\* The loop over the terms.
RestoreTags ==
    /\ dpc = "terms"
    /\ deob' = TermsFrom(deob, release_groups, 1)
    /\ dpc' = "done"
    /\ UNCHANGED <<dirname, deobfuscate_words, release_groups, title_name>>
    /\ UNCHANGED <<substVars, normVars, runVars, buildVars, joinVars, sepVars>>

(***************************************************************************)
(* guess_info: the corrections of the record guessit returned              *)
(***************************************************************************)
\* guess[k] = v
SetItem(g, k, v) == [x \in DOMAIN g \cup {k} |-> IF x = k THEN v ELSE g[x]]

\* The start of a year (19|20)\d\d, in parentheses or bare, at offset i of s
YearAt(s, i, parens) ==
    LET j == IF parens THEN i + 1 ELSE i
    IN  /\ j + 4 + (IF parens THEN 1 ELSE 0) <= Len(s)
        /\ parens => s[i + 1] = "(" /\ s[j + 5] = ")"
        /\ SubSeq(s, j + 1, j + 2) \in {<<"1", "9">>, <<"2", "0">>}
        /\ IsDigit(s[j + 3]) /\ IsDigit(s[j + 4])

\* remove_year(title): group 1 is the last year that has a character before
\* it, with its parentheses if there is one in parentheses; every occurrence
\* of its text is removed and the result stripped.
remove_year(title) ==
    LET P == {i \in 1..Len(title) : YearAt(title, i, TRUE)}
        B == {i \in 1..Len(title) : YearAt(title, i, FALSE)}
    IN  IF P # {}
        THEN Strip(Replace(title, SubSeq(title, Max(P) + 1, Max(P) + 6), <<>>), Whitespace)
        ELSE IF B # {}
             THEN Strip(Replace(title, SubSeq(title, Max(B) + 1, Max(B) + 4), <<>>), Whitespace)
             ELSE title

\* year_and_season_equal(guess), as a truth value
year_and_season_equal(g) ==
    /\ Get(g, "season", 0) # 0
    /\ Get(g, "year", 0) # 0
    /\ g["season"] = g["year"]

\* A plausible slip: the test for the episode number is left out.
is_movie_without_episode_test(g) ==
    \/ Get(g, "edition", <<>>) # <<>>
    \/ year_and_season_equal(g) /\ Get(g, "type", "") # "episode"

\* is_movie(guess), as a truth value
is_movie(g) ==
    \/ Get(g, "type", "") = "episode" /\ "episode" \notin DOMAIN g
    \/ Get(g, "edition", <<>>) # <<>>
    \/ year_and_season_equal(g) /\ Get(g, "type", "") # "episode"

\* "if is_movie(guess): guess["type"] = "movie""
FixMovie(g) == IF is_movie(g) THEN SetItem(g, "type", "movie") ELSE g

\* "treat parts as episodes"
FixPart(g) ==
    IF Get(g, "type", "") = "movie" /\ "part" \in DOMAIN g
    THEN SetItem(SetItem(g, "type", "episode"), "episode", g["part"])
    ELSE g

\* "add season number if not present", for a record with a type
FixSeason(g) ==
    IF g["type"] = "episode" /\ ("season" \notin DOMAIN g \/ year_and_season_equal(g))
    THEN SetItem(g, "season", 1)
    ELSE g

\* "detect if year is part of series name", for an episode with a title
FixTitle(g, series_year) ==
    IF g["type"] # "episode" THEN g
    ELSE IF ~series_year THEN SetItem(g, "title", remove_year(g["title"]))
    ELSE IF /\ "year" \in DOMAIN g /\ "title" \in DOMAIN g
            /\ Get(g, "season", 0) # g["year"]
            /\ g["title"] = remove_year(g["title"])
         THEN SetItem(g, "title", g["title"] \o <<" ">> \o Str(g["year"]))
         ELSE g

\* The assignment of guess["vtype"]
VType(g, force_tv) ==
    IF g["type"] = "movie"
    THEN IF "date" \in DOMAIN g THEN "dated"
         ELSE IF force_tv THEN "othertv" ELSE "movie"
    ELSE IF g["type"] = "episode" THEN "series"
    ELSE g["type"]

\* guess["type"] or guess["title"] raises KeyError on the way.
GuessInfoRaises(g, series_year) ==
    \/ "type" \notin DOMAIN FixPart(FixMovie(g))
    \/ /\ FixPart(FixMovie(g))["type"] = "episode"
       /\ ~series_year
       /\ "title" \notin DOMAIN g

\* guess_info from the return of guessit on, for a file name that does not
\* start with a digit and without DNZB headers; the record guessit returned
\* is kept under "guessit".
GuessInfo ==
    /\ bpc = "guessit"
    /\ \E series_year \in BOOLEAN, force_tv \in BOOLEAN :
         IF GuessInfoRaises(guess, series_year)
         THEN bpc' = "raised" /\ UNCHANGED <<guess, type>>
         ELSE \E g \in {FixTitle(FixSeason(FixPart(FixMovie(guess))), series_year)} :
                /\ guess' = SetItem(SetItem(g, "vtype", VType(g, force_tv)), "guessit", guess)
                /\ type' = VType(g, force_tv)
                /\ bpc' = "guessed"
    /\ UNCHANGED <<multiple_episodes, episode_separator>>
    /\ UNCHANGED <<substVars, normVars, runVars, joinVars, sepVars, deobVars>>

(***************************************************************************)
(* construct_filename_glob: the pattern for the files of the same title    *)
(***************************************************************************)
identifying_filename_components ==
    <<"title", "season", "episode", "year", "edition", "part", "date">>

\* str(value) of an attribute: numbers in decimal, strings as they are
ValueStr(g, k) ==
    IF k \in {"season", "episode", "year", "part"} THEN Str(g[k]) ELSE g[k]

\* "if value:" for guess.get(component, None)
Truthy(g, k) ==
    k \in DOMAIN g /\ (IF k \in {"season", "episode", "year", "part"} THEN g[k] # 0
                      ELSE g[k] # <<>>)

\* re.search(re.escape(x), s, re.IGNORECASE).span() for a non-empty x: the
\* first place where x stands ignoring case, <<>> without one
SearchSpan(s, x) ==
    LET I == {i \in 0..(Len(s) - Len(x)) :
                 Lower(SubSeq(s, i + 1, i + Len(x))) = Lower(x)}
    IN  IF I = {} THEN <<>>
        ELSE <<CHOOSE i \in I : \A j \in I : i <= j,
               (CHOOSE i \in I : \A j \in I : i <= j) + Len(x)>>

\* The first loop: identifying_spans, in the order of the components
RECURSIVE IdentifyingSpans(_, _, _)
IdentifyingSpans(stem, g, k) ==
    IF k > Len(identifying_filename_components) THEN <<>>
    ELSE (IF Truthy(g, identifying_filename_components[k])
             /\ SearchSpan(stem, ValueStr(g, identifying_filename_components[k])) # <<>>
          THEN <<SearchSpan(stem, ValueStr(g, identifying_filename_components[k]))>>
          ELSE <<>>)
         \o IdentifyingSpans(stem, g, k + 1)

\* sorted(identifying_spans, key=lambda x: x[0]): stable
RECURSIVE SortedSpans(_)
SortedSpans(spans) ==
    IF spans = <<>> THEN <<>>
    ELSE LET m == CHOOSE i \in 1..Len(spans) :
                     /\ \A j \in 1..Len(spans) : spans[i][1] <= spans[j][1]
                     /\ \A j \in 1..(i - 1) : spans[j][1] # spans[i][1]
         IN  <<spans[m]>> \o SortedSpans(SubSeq(spans, 1, m - 1)
                                          \o SubSeq(spans, m + 1, Len(spans)))

\* The second loop and the test after it: a "*" for a gap, the text of the
\* span, and a "*" for what follows the last span.
RECURSIVE GlobLoop(_, _, _)
GlobLoop(stem, spans, last_end) ==
    IF spans = <<>>
    THEN IF last_end < Len(stem) THEN <<"*">> ELSE <<>>
    ELSE (IF spans[1][1] > last_end THEN <<"*">> ELSE <<>>)
         \o SubSeq(stem, spans[1][1] + 1, spans[1][2])
         \o GlobLoop(stem, Tail(spans), spans[1][2])

\* construct_filename_glob(dest_path), guess being what guess_info returns
\* for it: the name of the pattern (its directory is that of dest_path).
construct_filename_glob(dest_path, g) ==
    The({GlobLoop(stem, SortedSpans(IdentifyingSpans(stem, g, 1)), 0) :
         stem \in {SplitExt(Basename(dest_path))[1]}})
      \o SplitExt(Basename(dest_path))[2]

\* pathlib's glob for one name: "*" stands for any text, every other
\* character of the model for itself.
RECURSIVE GlobMatches(_, _)
GlobMatches(pat, s) ==
    IF pat = <<>> THEN s = <<>>
    ELSE IF pat[1] = "*"
         THEN \E k \in 0..Len(s) : GlobMatches(Tail(pat), SubSeq(s, k + 1, Len(s)))
         ELSE s # <<>> /\ s[1] = pat[1] /\ GlobMatches(Tail(pat), Tail(s))

\* The call of construct_filename_glob in rename_overwrite_smaller.
ConstructFilenameGlob ==
    /\ jpc = "glob"
    /\ result' = [kind |-> "glob", name |-> construct_filename_glob(new_path, guess)]
    /\ jpc' = "globbed"
    /\ UNCHANGED <<filename, dest_dir, new_path>>
    /\ UNCHANGED <<substVars, normVars, runVars, buildVars, sepVars, deobVars>>

(***************************************************************************)
(* construct_path from the format to the cleaned path: the extension       *)
(* specifier, path_subst and the cleanup, for a movie with title X.        *)
(***************************************************************************)
\* "if format.rstrip("}")[-5:] != ".%ext": format += ".%ext"" and
\* sorter = format.replace("\\", "/")
sorter(format) ==
    LET f == RStrip(format, {"}"})
        tail == SubSeq(f, IF Len(f) > 5 THEN Len(f) - 4 ELSE 1, Len(f))
    IN  Replace(IF tail # <<".", "%", "e", "x", "t">> THEN format \o <<".", "%", "e", "x", "t">> ELSE format,
                <<"\\">>, <<"/">>)

\* The format of the type is fixed, the mapping built, the specifier
\* appended and path_subst(sorter, mapping) entered.
AppendExtension ==
    /\ bpc = "format"
    /\ path' = sorter(movies_format)
    /\ mapping' =
         LET original_fext == SplitExt(Basename(filename))[2]
         IN  <<Entry(<<"%", "e", "x", "t">>, original_fext, FALSE),
               Entry(<<"%", "E", "X", "T">>, Upper(original_fext), FALSE),
               Entry(<<"%", "E", "x", "t">>, Title(original_fext), FALSE),
               Entry(<<"%", "t">>, <<"X">>, FALSE)>>
    /\ spc' = "sort"
    /\ bpc' = "subst"
    /\ UNCHANGED <<n, newpath, picks, warnings>>
    /\ UNCHANGED <<guess, type, multiple_episodes, episode_separator>>
    /\ UNCHANGED <<normVars, runVars, joinVars, sepVars, deobVars>>

\* path = path_subst(sorter, mapping): the cleanup starts from its result.
StartCleanup ==
    /\ bpc = "subst"
    /\ spc = "done"
    /\ cin' = SubstResult
    /\ cpath' = SubstResult
    /\ cstage' = "replace"
    /\ bpc' = "cleanup"
    /\ UNCHANGED <<cpass, cout1, cvariant, old_name>>
    /\ UNCHANGED <<guess, type, multiple_episodes, episode_separator>>
    /\ UNCHANGED <<substVars, runVars, joinVars, sepVars, deobVars>>

(***************************************************************************)
(* Specifications                                                          *)
(***************************************************************************)
IdleSubst ==
    /\ path = <<>>
    /\ mapping = <<>>
    /\ n = 0
    /\ newpath = <<>>
    /\ spc = "idle"
    /\ picks = <<>>
    /\ warnings = <<>>

IdleNorm ==
    /\ cin = <<>>
    /\ cpath = <<>>
    /\ cstage = "idle"
    /\ cpass = 1
    /\ cout1 = <<>>
    /\ cvariant = "main"
    /\ old_name = <<>>

(***************************************************************************)
(* The initialisation: required options and the options read               *)
(***************************************************************************)
\* required_options, each as optname.upper()
required_options ==
    <<"NZBPO_MOVIESDIR", "NZBPO_SERIESDIR", "NZBPO_DATEDDIR", "NZBPO_OTHERTVDIR",
      "NZBPO_VIDEOEXTENSIONS", "NZBPO_SATELLITEEXTENSIONS", "NZBPO_MINSIZE",
      "NZBPO_MOVIESFORMAT", "NZBPO_SERIESFORMAT", "NZBPO_OTHERTVFORMAT",
      "NZBPO_DATEDFORMAT", "NZBPO_EPISODESEPARATOR", "NZBPO_OVERWRITE", "NZBPO_CLEANUP",
      "NZBPO_LOWERWORDS", "NZBPO_UPPERWORDS", "NZBPO_DEOBFUSCATEWORDS",
      "NZBPO_RELEASEGROUPS", "NZBPO_TVCATEGORIES", "NZBPO_PREVIEW", "NZBPO_VERBOSE">>

\* The options read as os.environ[...] under "Init script config options",
\* in the order of the statements (those read with os.environ.get have a
\* default and are left out).
options_read ==
    <<"NZBPO_MOVIESFORMAT", "NZBPO_SERIESFORMAT", "NZBPO_DATEDFORMAT",
      "NZBPO_OTHERTVFORMAT", "NZBPO_MULTIPLEEPISODES", "NZBPO_EPISODESEPARATOR",
      "NZBPO_MOVIESDIR", "NZBPO_SERIESDIR", "NZBPO_DATEDDIR", "NZBPO_OTHERTVDIR",
      "NZBPO_VIDEOEXTENSIONS", "NZBPO_SATELLITEEXTENSIONS", "NZBPO_MINSIZE",
      "NZBPO_OVERWRITE", "NZBPO_OVERWRITESMALLER", "NZBPO_CLEANUP", "NZBPO_PREVIEW",
      "NZBPO_VERBOSE", "NZBPO_LOWERWORDS", "NZBPO_UPPERWORDS", "NZBPO_DEOBFUSCATEWORDS",
      "NZBPO_RELEASEGROUPS", "NZBPO_TVCATEGORIES">>

\* The names the script reads from the environment without a default
Options == {options_read[i] : i \in 1..Len(options_read)}

\* The value NZBGet passes for a yes/no option
YesNo(b) == IF b THEN "yes" ELSE "no"

\* int(s) returns: s is a decimal number (signs, blanks and underscores are
\* not in the model)
IsInt(s) == s # <<>> /\ \A i \in 1..Len(s) : IsDigit(s[i])

\* "for optname in required_options: if not optname.upper() in os.environ:
\* ... sys.exit(POSTPROCESS_ERROR)"
CheckRequiredOptions ==
    /\ pc = "required"
    /\ IF \E i \in 1..Len(required_options) : required_options[i] \notin DOMAIN environ
       THEN pc' = "exit" /\ exit_status' = POSTPROCESS_ERROR
       ELSE pc' = "options" /\ exit_status' = exit_status
    /\ UNCHANGED <<environ, overwrite, overwrite_smaller, preview, faulty, fs, scan_list, si,
                   video_files, vi, files_moved, errors, processed, failed>>
    /\ UNCHANGED <<substVars, normVars, auxVars>>

\* "Init script config options": os.environ[name] raises KeyError for a
\* name that is not there and int raises ValueError; nothing catches them
\* and the interpreter ends with status 1.
InitOptions ==
    /\ pc = "options"
    /\ IF \/ \E i \in 1..Len(options_read) : options_read[i] \notin DOMAIN environ
          \/ ~IsInt(environ["NZBPO_MINSIZE"])
       THEN /\ pc' = "failed" /\ exit_status' = 1
            /\ UNCHANGED <<overwrite, overwrite_smaller, preview>>
       ELSE /\ pc' = "initialised" /\ exit_status' = exit_status
            /\ overwrite' = (environ["NZBPO_OVERWRITE"] = "yes")
            /\ overwrite_smaller' = (environ["NZBPO_OVERWRITESMALLER"] = "yes")
            /\ preview' = (environ["NZBPO_PREVIEW"] = "yes")
    /\ UNCHANGED <<environ, faulty, fs, scan_list, si, video_files, vi, files_moved, errors,
                   processed, failed>>
    /\ UNCHANGED <<substVars, normVars, auxVars>>

IdleRun ==
    /\ pc = "idle"
    /\ environ = <<>>
    /\ overwrite = FALSE
    /\ overwrite_smaller = FALSE
    /\ preview = FALSE
    /\ faulty = [kind |-> "none", file |-> <<>>]
    /\ fs = <<>>
    /\ scan_list = <<>>
    /\ si = 0
    /\ video_files = <<>>
    /\ vi = 0
    /\ files_moved = FALSE
    /\ errors = FALSE
    /\ processed = <<>>
    /\ failed = {}
    /\ exit_status = 0

IdleBuild ==
    /\ guess = <<>>
    /\ type = ""
    /\ multiple_episodes = ""
    /\ episode_separator = <<>>
    /\ bpc = "idle"

IdleJoin ==
    /\ filename = <<>>
    /\ dest_dir = <<>>
    /\ new_path = <<>>
    /\ result = [kind |-> "none"]
    /\ jpc = "idle"

IdleSep ==
    /\ movies_format = <<>>
    /\ series_format = <<>>
    /\ dupe_separator = <<" ">>

IdleDeob ==
    /\ dirname = <<>>
    /\ deobfuscate_words = <<<<>>>>
    /\ release_groups = <<<<>>>>
    /\ title_name = <<>>
    /\ deob = <<>>
    /\ dpc = "idle"

IdleAux == IdleBuild /\ IdleJoin /\ IdleSep /\ IdleDeob

InitSubst ==
    /\ path \in Templates
    /\ mapping \in MappingTables
    /\ n = 0
    /\ newpath = <<>>
    /\ spc = "sort"
    /\ picks = <<>>
    /\ warnings = <<>>
    /\ IdleNorm
    /\ IdleRun
    /\ IdleAux

NextSubst == SubstSort \/ SubstStep \/ SubstReturn

vars == <<substVars, normVars, runVars, auxVars>>

SpecSubst == InitSubst /\ [][NextSubst]_vars

InitNorm ==
    /\ IdleSubst
    /\ IdleRun
    /\ IdleAux
    /\ cin \in NormInputs
    /\ cpath = cin
    /\ cstage = "replace"
    /\ cpass = 1
    /\ cout1 = <<>>
    /\ cvariant \in {"main", "determine"}
    /\ old_name = <<>>

NextNorm ==
    \/ CleanReplace \/ CleanUp \/ CleanUpper \/ CleanLower
    \/ CleanStrip \/ CleanNormpath \/ CleanAgain

SpecNorm == InitNorm /\ [][NextNorm]_vars

\* The two case-folding statements of construct_path on their own: the
\* string is handed to to_uppercase, its result to to_lowercase.
InitCase ==
    /\ IdleSubst
    /\ IdleRun
    /\ IdleAux
    /\ cin \in CaseInputs
    /\ cpath = cin
    /\ cstage = "upper"
    /\ cpass = 1
    /\ cout1 = <<>>
    /\ cvariant \in {"main", "determine"}
    /\ old_name = <<>>

NextCase == CleanUpper \/ CleanLower

SpecCase == InitCase /\ [][NextCase]_vars

\* strip_folders on its own.
InitStrip ==
    /\ IdleSubst
    /\ IdleRun
    /\ IdleAux
    /\ cin \in StripInputs
    /\ cpath = cin
    /\ cstage = "strip_folders"
    /\ cpass = 1
    /\ cout1 = <<>>
    /\ cvariant = "main"
    /\ old_name = <<>>

NextStrip == StripFolders

SpecStrip == InitStrip /\ [][NextStrip]_vars

\* Inputs of the Mapping Builder: a guess is a function from the attributes
\* that are present to their values.
MaxEpisodes == 3

\* The episode attribute: a number, or a list of two to MaxEpisodes
\* increasing numbers.
Episodes ==
    {[list |-> FALSE, items |-> <<3>>]} \cup
    UNION { { [list |-> TRUE, items |-> q] :
                q \in { r \in [1..k -> {1, 2, 3, 12}] :
                          \A i \in 1..(k - 1) : r[i] < r[i + 1] } } :
            k \in 2..MaxEpisodes }

MovieGuesses ==
    { [k \in ks |->
         [title |-> <<"f", "o", "o", " ", "b", "a", "r", "'", "s">>, year |-> y, imdb |-> <<"t", "t", "1">>, cpimdb |-> <<"c", "p", "(", "t", "t", "1", ")">>,
          source |-> <<"W", "E", "B">>, screen_size |-> <<"7", "2", "0", "p">>, video_codec |-> <<"H", ".", "2", "6", "4">>,
          audio_codec |-> <<"A", "A", "C">>, audio_channels |-> <<"5", ".", "1">>,
          release_group |-> <<"G", "R", "P">>][k]] :
        y \in {2024, 1999},
        ks \in { a \cup b : a \in SUBSET {"title", "year"},
                            b \in {{}, {"imdb", "cpimdb"}, {"source"},
                                   {"source", "screen_size", "video_codec",
                                    "audio_codec", "audio_channels",
                                    "release_group"}} } }

SeriesGuesses ==
    { [k \in ks |->
         [title |-> <<"f", "o", "o", " ", "b", "a", "r", "'", "s">>, year |-> y, season |-> sn, episode |-> e,
          episode_title |-> <<"t", "h", "e", " ", "p", "i", "l", "o", "t">>,
          source |-> <<"W", "E", "B">>, screen_size |-> <<"7", "2", "0", "p">>, video_codec |-> <<"H", ".", "2", "6", "4">>,
          audio_codec |-> <<"A", "A", "C">>, audio_channels |-> <<"5", ".", "1">>,
          release_group |-> <<"G", "R", "P">>][k]] :
        y \in {2024, 1999}, sn \in {1, 12}, e \in Episodes,
        ks \in { a \cup b : a \in SUBSET {"title", "year", "season", "episode",
                                          "episode_title"},
                            b \in {{}, {"source"},
                                   {"source", "screen_size", "video_codec",
                                    "audio_codec", "audio_channels",
                                    "release_group"}} } }

InitBuild ==
    /\ type \in {"movie", "series", "othertv"}
    /\ guess \in (IF type = "series" THEN SeriesGuesses ELSE MovieGuesses)
    /\ multiple_episodes \in {"range", "list"}
    /\ episode_separator \in {<<"-">>, <<",", " ">>}
    /\ bpc = "common"
    /\ path = <<>> /\ mapping = <<>> /\ n = 0 /\ newpath = <<>>
    /\ spc = "idle" /\ picks = <<>> /\ warnings = <<>>
    /\ IdleNorm
    /\ IdleRun
    /\ IdleJoin
    /\ IdleSep
    /\ IdleDeob

NextBuild == AddCommonMapping \/ AddSeriesMapping \/ AddMoviesMapping

SpecBuild == InitBuild /\ [][NextBuild]_vars

\* Inputs of the end of construct_path: source paths, cleaned paths and
\* destination directories that differ in letter case and in separators.
MaxJoinLen == 3

InitJoin ==
    /\ IdleSubst
    /\ IdleRun
    /\ IdleBuild
    /\ IdleSep
    /\ IdleDeob
    /\ cin \in UNION {[1..k -> {"a", "A", "/"}] : k \in 1..(MaxJoinLen - 1)}
    /\ cpath = cin
    /\ cstage = "normpath"
    /\ cpass = 1
    /\ cout1 = <<>>
    /\ cvariant = "main"
    /\ old_name = <<>>
    /\ filename \in UNION {[1..k -> {"a", "A", "/"}] : k \in 1..MaxJoinLen}
    /\ dest_dir \in {<<"a">>, <<"A">>, <<"a", "/">>}
    /\ new_path = <<>>
    /\ result = [kind |-> "none"]
    /\ jpc = "join"

NextJoin == CleanNormpath \/ JoinDestination \/ CompareNames

SpecJoin == InitJoin /\ [][NextJoin]_vars

\* Inputs of guess_dupe_separator: the templates up to MaxFormatLen of the
\* characters its specifiers are made of, and longer ones with specifiers of
\* both styles in the directory and in the file name.
MaxFormatLen == 4

InitSep ==
    /\ IdleSubst
    /\ IdleNorm
    /\ IdleRun
    /\ IdleBuild
    /\ IdleJoin
    /\ IdleDeob
    /\ movies_format \in
           (UNION {[1..k -> {"%", ".", "_", "t", "/"}] : k \in 1..MaxFormatLen})
             \cup {<<"%", ".", "t", "/", "%", "t">>, <<"%", ".", "t", "/", "%", "_", "t">>, <<"%", "_", "t", "%", ".", "t">>, <<"%", "s", ".", "n">>, <<"%", "s", "_", "N">>, <<"%", "s", "_", "n", " ", "-", " ", "%", ".", "t">>,
                   <<"%", "s", "_", "N", "/", "%", "s", "n">>, <<"%", "s", "n">>}
    /\ series_format \in {<<"%", "s", ".", "n">>, <<"%", "s", "_", "N", "/", "%", "s", "n">>, <<"%", "s", "n">>, <<"%", "s", "_", "n", " ", "-", " ", "%", ".", "t">>}
    /\ dupe_separator = <<" ">>

NextSep == GuessDupeSeparator

SpecSep == InitSep /\ [][NextSep]_vars

\* Inputs of the deobfuscation: the names up to MaxDirLen of a letter, the
\* hyphen, the dot and a letter that is a configured word, and release names.
MaxDirLen == 6

InitDeob ==
    /\ IdleSubst
    /\ IdleNorm
    /\ IdleRun
    /\ IdleBuild
    /\ IdleJoin
    /\ IdleSep
    /\ dirname \in (UNION {[1..k -> {"a", "x", "-", "."}] : k \in 0..MaxDirLen})
                     \cup {<<"M", "o", "v", "i", "e", ".", "2", "0", "0", "2", "-", "G", "R", "P">>, <<"S", "p", "i", "d", "e", "r", "-", "M", "a", "n", ".", "2", "0", "0", "2", "-", "G", "R", "P">>,
                           <<"M", "o", "v", "i", "e", ".", "2", "0", "0", "2", "-", "G", "R", "P", "-", "x", "p", "o", "s", "t">>, <<" ", "M", "o", "v", "i", "e", ".", "2", "0", "0", "2", "-", "G", "R", "P", " ">>,
                           <<"M", "o", "v", "i", "e", " ", "2", "0", "0", "2", "-", "G", "R", "P", " ", "x">>}
    /\ deobfuscate_words \in {<<<<>>>>, <<<<"x">>>>, <<<<"x">>, <<"x", "p", "o", "s", "t">>>>}
    /\ release_groups = <<<<>>>>
    /\ title_name = <<>>
    /\ deob = <<>>
    /\ dpc = "deobfuscate"

NextDeob == Deobfuscate

SpecDeob == InitDeob /\ [][NextDeob]_vars

\* Inputs of the release-group term: the names up to MaxGroupLen of letters
\* in both cases, the letter I, the hyphen and the dot, and release names.
MaxGroupLen == 5

InitGroup ==
    /\ IdleSubst
    /\ IdleNorm
    /\ IdleRun
    /\ IdleBuild
    /\ IdleJoin
    /\ IdleSep
    /\ dirname \in (UNION {[1..k -> {"a", "i", "I", "R", "-", "."}] : k \in 0..MaxGroupLen})
                     \cup {<<"M", "o", "v", "i", "e", ".", "2", "0", "0", "2", "-", "r", "a", "r", "b", "g">>, <<"M", "o", "v", "i", "e", ".", "2", "0", "0", "2", "-", "s", "i", "n", "n", "e", "r", "s">>,
                           <<"M", "o", "v", "i", "e", ".", "2", "0", "0", "2", "-", "S", "i", "N", "N", "E", "R", "S">>, <<"S", "p", "i", "d", "e", "r", "-", "M", "a", "n", ".", "2", "0", "0", "2", "-", "c", "r", "i", "t", "e", "r", "i", "o", "n">>,
                           <<"M", "o", "v", "i", "e", ".", "2", "0", "0", "2", "-", "d", "-", "z", "0", "n", "3">>}
    /\ deobfuscate_words = <<<<>>>>
    /\ release_groups \in {<<<<>>>>, <<<<"a", "I">>>>, <<<<"R", "a">>, <<"a", "-", "I">>, <<"D", "-", "Z", "0", "N", "3">>>>}
    /\ title_name = <<>>
    /\ deob = <<>>
    /\ dpc = "group"

NextGroup == SceneGroupTerm

SpecGroup == InitGroup /\ [][NextGroup]_vars

\* Inputs of the extension specifier: formats with and without an extension
\* specifier at their end, in its three casings, with and without the dot
\* and before closing braces; files with a lower and an upper case extension.
InitExt ==
    /\ IdleSubst
    /\ IdleNorm
    /\ IdleRun
    /\ IdleDeob
    /\ guess = <<>> /\ multiple_episodes = "" /\ episode_separator = <<>>
    /\ type = "movie"
    /\ bpc = "format"
    /\ filename \in {<<"d", "/", "B", ".", "m", "k", "v">>, <<"d", "/", "B", ".", "M", "K", "V">>}
    /\ dest_dir = <<>> /\ new_path = <<>> /\ result = [kind |-> "none"] /\ jpc = "idle"
    /\ movies_format \in
         { stem \o end : stem \in {<<"%", "t">>, <<"a", "/", "%", "t">>, <<"{", "%", "t">>, <<"{", "{", "%", "t">>},
                         end \in {<<>>, <<".", "%", "e", "x", "t">>, <<".", "%", "E", "X", "T">>, <<".", "%", "E", "x", "t">>, <<"%", "e", "x", "t">>,
                                  <<".", "%", "e", "x", "t", "}">>, <<".", "%", "E", "X", "T", "}">>, <<".", "%", "e", "x", "t", "}", "}">>, <<".", "%", "E", "x", "t", "}", "}">>} }
    /\ series_format = <<>>
    /\ dupe_separator = <<" ">>

NextExt ==
    \/ AppendExtension \/ SubstSort \/ SubstStep \/ SubstReturn \/ StartCleanup
    \/ CleanReplace \/ CleanUp \/ CleanUpper \/ CleanLower \/ CleanStrip
    \/ CleanNormpath

SpecExt == InitExt /\ [][NextExt]_vars


\* Inputs of the case correction: directory names made of a prefix, a
\* resolution and a rest, the prefixes up to MaxOverlayLen characters; the
\* name add_common_mapping passes (the directory name with its hyphens, dots
\* and underscores replaced by spaces) and names that differ from it.
MaxOverlayLen == 3

InitOverlay ==
    /\ IdleSubst
    /\ IdleNorm
    /\ IdleRun
    /\ IdleBuild
    /\ IdleJoin
    /\ IdleSep
    /\ \E pre \in UNION {[1..k -> {"a", "B", "."}] : k \in 0..MaxOverlayLen},
          res \in {<<"7", "2", "0", "p">>, <<"7", "2", "0", "P">>, <<"7", "2", "p">>, <<"1", "0", "8", "0", "p">>},
          rest \in {<<>>, <<"-", "G">>, <<".", "x", "-", "g">>, <<"-", "a", "G">>} :
          dirname = pre \o res \o rest
    /\ title_name \in (UNION {[1..k -> {"a", "B"}] : k \in 1..MaxOverlayLen})
                 \cup {Replace(Replace(dirname, <<"-">>, <<" ">>), <<".">>, <<" ">>)}
    /\ deobfuscate_words = <<<<>>>>
    /\ release_groups = <<<<>>>>
    /\ deob = <<>>
    /\ dpc = "overlay"

NextOverlay == CaseOverlay

SpecOverlay == InitOverlay /\ [][NextOverlay]_vars


\* Inputs of the tag restoration: release names with up to MaxTags of the
\* tags the terms are written for, each in its canonical spelling, in small
\* letters and in capitals.
MaxTags == 2

CanonicalTags ==
    {<<"1", "0", "8", "0", "p">>, <<"x", "2", "6", "4">>, <<"1", "0", "B", "i", "t">>, <<"B", "l", "u", "R", "a", "y">>, <<"W", "e", "b", "-", "D", "L">>, <<"W", "e", "b", "R", "i", "p">>, <<"A", "A", "C">>, <<"D", "o", "l", "b", "y">>, <<"A", "t", "m", "o", "s">>,
     <<"T", "r", "u", "e", "H", "D">>, <<"D", "D", "5", ".", "1">>, <<"D", "T", "S", "-", "X">>, <<"D", "T", "S", "-", "H", "D">>, <<"D", "T", "S", "-", "E", "S">>, <<"D", "T", "S", "-", "H", "D", ".", "M", "A">>}

TagSpellings == CanonicalTags \cup {Lower(t) : t \in CanonicalTags}
                    \cup {Upper(t) : t \in CanonicalTags} \cup {<<"D", "T", "S", "H", "D", "M", "A">>, <<"D", "D", "7", "1">>}

RECURSIVE TagLists(_)
TagLists(k) ==
    IF k = 0 THEN {<<>>}
    ELSE TagLists(k - 1) \cup
         {<<".">> \o t \o r : t \in TagSpellings, r \in TagLists(k - 1)}

InitTags ==
    /\ IdleSubst
    /\ IdleNorm
    /\ IdleRun
    /\ IdleBuild
    /\ IdleJoin
    /\ IdleSep
    /\ \E tags \in TagLists(MaxTags) : dirname = <<"a">> \o tags \o <<"-", "G", "R", "P">>
    /\ title_name = <<"a">>
    /\ deobfuscate_words = <<<<>>>>
    /\ release_groups = <<<<>>>>
    /\ deob = <<>>
    /\ dpc = "overlay"

NextTags == CaseOverlay \/ RestoreTags

SpecTags == InitTags /\ [][NextTags]_vars


\* Records guessit can return: every selection of the attributes guess_info
\* reads, with a season that is zero, small or equal to the year.
InitGuess ==
    /\ IdleSubst
    /\ IdleNorm
    /\ IdleRun
    /\ IdleJoin
    /\ IdleSep
    /\ IdleDeob
    /\ \E ks \in SUBSET {"type", "episode", "season", "year", "part", "edition", "date",
                         "title"},
          t \in {"episode", "movie"}, sn \in {0, 2, 2019}, ti \in {<<"f", "o", "o">>, <<"f", "o", "o", " ", "2", "0", "1", "9">>} :
          guess = [k \in ks |->
                     [type |-> t, episode |-> 3, season |-> sn, year |-> 2019, part |-> 2,
                      edition |-> <<"D", "C">>, date |-> <<"2", "0", "1", "9", "-", "0", "1", "-", "0", "2">>, title |-> ti][k]]
    /\ type = ""
    /\ multiple_episodes = ""
    /\ episode_separator = <<>>
    /\ bpc = "guessit"

NextGuess == GuessInfo

SpecGuess == InitGuess /\ [][NextGuess]_vars


\* Inputs of the loops: every string up to MaxLoopLen of the characters each
\* loop reacts to.
MaxLoopLen == 5

InitLoops ==
    /\ IdleSubst
    /\ IdleRun
    /\ IdleAux
    /\ \E loop \in {"while_replace", "while_upper", "while_lower", "while_strip"} :
         /\ cstage = loop
         /\ cin \in UNION {[1..k -> CASE loop = "while_replace" -> {".", "(", ")", "-"}
                                      [] loop = "while_upper" -> {"{", "}", "a"}
                                      [] loop = "while_lower" -> {"{", "}", "A"}
                                      [] loop = "while_strip" -> {"_", ".", " ", "a"}] :
                         k \in 0..MaxLoopLen}
    /\ cpath = cin
    /\ cpass = 1
    /\ cout1 = <<>>
    /\ cvariant = "main"
    /\ old_name = <<>>

NextLoops == ReplaceIteration \/ UppercaseIteration \/ LowercaseIteration \/ StripIteration

SpecLoops == InitLoops /\ [][NextLoops]_vars

\* The script is one sequential process: a loop that can make its next
\* iteration or leave makes it.
FairLoops == SpecLoops /\ WF_vars(NextLoops)


\* Inputs of construct_filename_glob: destinations whose stem has up to
\* MaxStemLen characters, and the destination of the first episode of a
\* first season; records with every selection of title, season and episode.
MaxStemLen == 4

InitGlob ==
    /\ IdleSubst
    /\ IdleNorm
    /\ IdleRun
    /\ IdleSep
    /\ IdleDeob
    /\ \E stem \in (UNION {[1..k -> {"a", "1", "2"}] : k \in 1..MaxStemLen})
                       \cup {<<"S", "h", "o", "w", " ", "-", " ", "S", "0", "1", "E", "0", "1">>} :
         new_path = <<"d", "/">> \o stem \o <<".", "m">>
    /\ \E ks \in SUBSET {"title", "season", "episode"},
          ti \in {<<"a">>, <<"A", "1">>, <<"S", "h", "o", "w">>}, sn \in {1, 12}, ep \in {1, 2} :
         guess = [k \in ks |-> [title |-> ti, season |-> sn, episode |-> ep][k]]
    /\ type = ""
    /\ multiple_episodes = ""
    /\ episode_separator = <<>>
    /\ bpc = "idle"
    /\ filename = <<>>
    /\ dest_dir = <<>>
    /\ result = [kind |-> "none"]
    /\ jpc = "glob"

NextGlob == ConstructFilenameGlob

SpecGlob == InitGlob /\ [][NextGlob]_vars


\* Environments of the initialisation: every option the script reads, up to
\* MaxMissing of them left out, with a minimum size that is a number or not.
MaxMissing == 2

InitEnviron ==
    /\ IdleSubst
    /\ IdleNorm
    /\ IdleAux
    /\ pc = "required"
    /\ \E missing \in {m \in SUBSET Options : Cardinality(m) <= MaxMissing},
          size \in {<<"1">>, <<"x">>}, yesno \in {"yes", "no"} :
         environ = [o \in Options \ missing |->
                      IF o = "NZBPO_MINSIZE" THEN size ELSE yesno]
    /\ overwrite = FALSE
    /\ overwrite_smaller = FALSE
    /\ preview = FALSE
    /\ faulty = [kind |-> "none", file |-> <<>>]
    /\ fs = <<>>
    /\ scan_list = <<>>
    /\ si = 0
    /\ video_files = <<>>
    /\ vi = 0
    /\ files_moved = FALSE
    /\ errors = FALSE
    /\ processed = <<>>
    /\ failed = {}
    /\ exit_status = 0

NextEnviron == CheckRequiredOptions \/ InitOptions

SpecEnviron == InitEnviron /\ [][NextEnviron]_vars

\* The state after the script's initialisation: the options are read, the
\* lists are empty, nothing is moved and no error has occurred.
Init ==
    /\ IdleSubst
    /\ IdleNorm
    /\ IdleAux
    /\ pc = "scan"
    /\ overwrite \in BOOLEAN
    /\ overwrite_smaller \in BOOLEAN
    /\ preview \in BOOLEAN
    /\ environ = [o \in Options |->
                    IF o = "NZBPO_MINSIZE" THEN <<"1">>
                    ELSE IF o = "NZBPO_OVERWRITE" THEN YesNo(overwrite)
                    ELSE IF o = "NZBPO_OVERWRITESMALLER" THEN YesNo(overwrite_smaller)
                    ELSE IF o = "NZBPO_PREVIEW" THEN YesNo(preview)
                    ELSE "yes"]
    /\ faulty \in Faults
    /\ \E pre \in PreExisting :
         /\ fs = [disk |-> InitialDisk(pre),
                  dirs |-> {download_dir} \cup (IF pre # {} THEN {<<"M">>} ELSE {}),
                  msrc |-> <<>>, mdst |-> <<>>, sep |-> <<" ">>, format |-> <<>>,
                  ops |-> <<>>, probes |-> <<>>, calls |-> <<>>, reports |-> <<>>,
                  raised |-> FALSE]
         /\ scan_list = SortPaths({q \in DOMAIN InitialDisk(pre) :
                                     Dirname(q) = download_dir})
    /\ si = 0
    /\ video_files = <<>>
    /\ vi = 0
    /\ files_moved = FALSE
    /\ errors = FALSE
    /\ processed = <<>>
    /\ failed = {}
    /\ exit_status = 0

Next == ScanFile \/ ScanDone \/ ProcessFile \/ Finish

Spec == Init /\ [][Next]_vars

(***************************************************************************)
(* C1                                                                      *)
(***************************************************************************)
Keys == {mapping[i].key : i \in 1..Len(mapping)}

MatchingAt(i) == {k \in Keys : StartsWith(path, k, i)}

SnDashS == <<"%", "s", "n", "-", "%", "s">>

\* C1: at every scanned '%' the key substituted is a longest mapping literal
\* matching the template there (none is taken only if none matches), and
\* with %sn = "Foo", %s = "1" the template %sn-%s yields Foo-1.
C1_LongestMatch ==
    /\ \A j \in 1..Len(picks) :
         LET p == picks[j]
             M == MatchingAt(p.pos)
         IN  IF M = {} THEN p.key = <<>>
             ELSE /\ p.key \in M
                  /\ \A k \in M : Len(k) <= Len(p.key)
    /\ (spc = "done" /\ path = SnDashS /\ Keys = {E_s.key, E_sn.key})
          => SubstResult = <<"F", "o", "o", "-", "1">>

\* A '%' with both %s and %sn matching has been substituted, in a table that
\* lists the shorter key first.
C1_Witness ==
    /\ spc = "done"
    /\ mapping[1].key # <<>>
    /\ \E j \in 1..Len(picks) :
         /\ picks[j].key = E_sn.key
         /\ E_s.key \in MatchingAt(picks[j].pos)
    /\ path = SnDashS

(***************************************************************************)
(* C2                                                                      *)
(***************************************************************************)
\* C2: the cleanup is idempotent: cleaning the output of a cleanup returns
\* that output unchanged.
C2_Idempotent == (cpass = 2 /\ cstage = "done") => cpath = cout1


(***************************************************************************)
(* Claims about the run (Spec)                                             *)
(***************************************************************************)
\* The completed rename calls of the run so far, as indices of the history.
CompletedCalls == {i \in 1..Len(fs.calls) : ~fs.calls[i].raised}

\* The destination of call c was taken when rename was entered.
Taken(c) == c.onDisk \/ c.inMoved

\* The name with suffix k was free when call c was entered.
FreeAt(c, k) ==
    /\ SuffixedName(c.new, c.sep, k) \notin c.existedBefore
    /\ ~InList(SuffixedName(c.new, c.sep, k), c.mdstBefore)

\* Suffix numbers a run of the modelled size can reach.
MaxSuffix == 2 * MaxVideos + 4

\* Call c ended at the name with the smallest free suffix k >= 2.
SmallestFreeSuffix(c) ==
    \E k \in 2..MaxSuffix :
        /\ c.dst = SuffixedName(c.new, c.sep, k)
        /\ FreeAt(c, k)
        /\ \A j \in 2..(k - 1) : ~FreeAt(c, j)

\* Some file-system call of call c has the given name.
HasOp(c, name) == \E j \in 1..Len(c.ops) : c.ops[j].op = name

\* At least one file was moved during the run.
MovedSome == \E i \in 1..Len(fs.calls) : HasOp(fs.calls[i], "move")

\* C3: when overwrite is not requested and the destination is taken (on disk
\* or among the produced paths), a completed rename ends at X<sep>(k).ext
\* with k the smallest integer >= 2 whose name is neither on disk nor among
\* the produced paths, <sep> being the separator inferred from the template
\* of the file; outside preview the file is moved to that name.
C3_CollisionNumbering ==
    \A i \in CompletedCalls :
        LET c == fs.calls[i]
        IN  (~overwrite /\ Taken(c)) =>
                /\ SmallestFreeSuffix(c)
                /\ c.sep = guess_dupe_separator(c.format)
                /\ ~preview => c.ops = <<Op("move", c.old, c.dst)>>

\* Three files resolved to the same taken X.m: the second call ended at
\* X.(2).m and the third at X.(3).m, with the separator of the template.
C3_Witness ==
    /\ ~overwrite /\ ~preview
    /\ \E i, j \in CompletedCalls :
        /\ i < j
        /\ fs.calls[i].new = DestX /\ fs.calls[j].new = DestX
        /\ fs.calls[i].onDisk
        /\ fs.calls[i].dst = SuffixedName(DestX, <<".">>, 2)
        /\ fs.calls[j].dst = SuffixedName(DestX, <<".">>, 3)
        /\ {fs.calls[i].dst, fs.calls[j].dst} \subseteq DOMAIN fs.disk

\* C4: a run in which at least one file was moved and no error occurred
\* ends with POSTPROCESS_SUCCESS, and a run ends with POSTPROCESS_NONE only
\* when no file was moved and no error occurred.
C4_ExitSuccess ==
    pc = "done" =>
        /\ (MovedSome /\ ~errors) => exit_status = POSTPROCESS_SUCCESS
        /\ exit_status = POSTPROCESS_NONE => (~MovedSome /\ ~errors)

\* C5: once the processing of a file has raised, in the scan loop or in the
\* move loop, the error flag is set in every later state, and the run ends
\* with POSTPROCESS_ERROR whatever else was moved.
C5_ErrorSticky ==
    /\ failed # {} => errors
    /\ (pc = "done" /\ failed # {}) => exit_status = POSTPROCESS_ERROR

\* A run has ended in which a file failed in the move loop, another file
\* was moved after it, and the status is the error status.
C5_Witness ==
    /\ pc = "done"
    /\ exit_status = POSTPROCESS_ERROR
    /\ \E i \in 1..Len(video_files) :
        /\ video_files[i] \in failed
        /\ \E j \in CompletedCalls :
            /\ fs.calls[j].old \in {video_files[k] : k \in (i + 1)..Len(video_files)}
            /\ HasOp(fs.calls[j], "move")

\* C6: the move loop handles the video files one by one in list order,
\* whether or not one of them raised: what it has handled is always the
\* first vi files of the list, each once, and at the end the whole list.
C6_FailureIsolation ==
    /\ vi = Len(processed)
    /\ vi <= Len(video_files)
    /\ processed = SubSeq(video_files, 1, vi)
    /\ \A i, j \in 1..Len(video_files) : video_files[i] = video_files[j] => i = j
    /\ pc = "done" => processed = video_files

\* A run has ended in which a file other than the last one raised and the
\* files after it were handled.
C6_Witness ==
    /\ pc = "done"
    /\ Len(video_files) = MaxVideos
    /\ video_files[1] \in failed
    /\ processed = video_files

\* What rename does to overwrite: delete the target, then move onto it.
RemoveThenMove(c) == <<Op("remove", c.new, <<>>), Op("move", c.old, c.new)>>

\* C7 as stated: with overwrite requested and the destination taken, on
\* disk or among the produced paths, a completed rename deletes the target,
\* then moves the file to the same path without a numeric suffix.
C7_OverwriteWhenTaken ==
    \A i \in CompletedCalls :
        LET c == fs.calls[i]
        IN  (overwrite /\ Taken(c)) => (c.ops = RemoveThenMove(c) /\ c.dst = c.new)

\* C7 amended: with overwrite requested, a completed rename deletes the
\* target and then moves the file to the same path, without a suffix, when
\* the destination was taken and not among the produced paths of the run;
\* a destination among the produced paths is never deleted and the file
\* ends at the smallest free suffixed name instead.
C7_OverwriteUnlessProduced ==
    \A i \in CompletedCalls :
        LET c == fs.calls[i]
        IN  overwrite =>
                /\ (Taken(c) /\ ~c.inMoved) =>
                       (c.ops = RemoveThenMove(c) /\ c.dst = c.new)
                /\ c.inMoved =>
                       (SmallestFreeSuffix(c) /\ ~HasOp(c, "remove"))

\* Both cases have happened in one run: a target on disk was deleted and
\* replaced, and a later file resolving to the same path got a suffix.
C7_Witness ==
    /\ overwrite
    /\ \E i, j \in CompletedCalls :
        /\ i < j
        /\ fs.calls[i].new = DestX /\ fs.calls[j].new = DestX
        /\ fs.calls[i].onDisk /\ ~fs.calls[i].inMoved
        /\ fs.calls[i].ops = RemoveThenMove(fs.calls[i])
        /\ fs.calls[j].inMoved
        /\ fs.calls[j].dst = DestX2

\* C8: with overwrite_smaller enabled no file-system call of the run
\* deletes a file, and a replace decision is reported only for an incoming
\* file strictly larger than the largest glob match.
C8_NeverDeletes ==
    overwrite_smaller =>
        /\ \A i \in 1..Len(fs.calls) : ~HasOp(fs.calls[i], "remove")
        /\ \A i \in 1..Len(fs.reports) :
               fs.reports[i].old_size > fs.reports[i].largest_size

\* A later call does nothing to a path produced earlier in the run.
SparesProduced(c) ==
    \A j \in 1..Len(c.ops) :
        /\ c.ops[j].op = "remove" => ~InList(c.ops[j].a, c.mdstBefore)
        /\ c.ops[j].op = "move" => ~InList(c.ops[j].b, c.mdstBefore)

\* C9: in one run, with any overwrite and preview settings, no two
\* completed rename calls for different source files end at the same
\* destination, and no call deletes or moves onto a path produced earlier
\* in the run.
C9_CollisionFree ==
    /\ \A i, j \in CompletedCalls :
           fs.calls[i].old # fs.calls[j].old => fs.calls[i].dst # fs.calls[j].dst
    /\ \A i \in 1..Len(fs.calls) : SparesProduced(fs.calls[i])

\* With overwrite requested, three different files resolved to the same
\* destination and ended at three different paths.
C9_Witness ==
    /\ overwrite
    /\ \E i, j, k \in CompletedCalls :
        /\ i < j /\ j < k
        /\ {fs.calls[i].new, fs.calls[j].new, fs.calls[k].new} = {DestX}
        /\ Cardinality({fs.calls[i].old, fs.calls[j].old, fs.calls[k].old}) = 3
        /\ Cardinality({fs.calls[i].dst, fs.calls[j].dst, fs.calls[k].dst}) = 3

\* C10: with preview enabled no rename call deletes, moves or copies a file
\* or creates a directory; the disk and the directories stay as they were
\* at the start of the run.
C10_PreviewNoChange ==
    preview => \A i \in 1..Len(fs.calls) : fs.calls[i].ops = <<>>

(***************************************************************************)
(* Claims about the case folding (SpecCase)                                *)
(***************************************************************************)
IsBrace(c) == c \in {"{", "}"}

NotBrace(c) == ~IsBrace(c)

NoBraces(s) == SelectSeq(s, NotBrace)

FooBarFolded ==
    <<"F", "O", "O", " ", "B", "A", "R", " ", "f", "o", "o", " ", "b", "a", "r">>

BadParse == [ok |-> FALSE, out |-> <<>>]

\* A string made of brace-free text, {{x}} spans and {x} spans with x
\* brace-free, read from left to right: whether it is of that form, and the
\* text with every {{x}} replaced by x uppercased and every {x} by x
\* lowercased.
RECURSIVE FlatParse(_)
FlatParse(s) ==
    IF s = <<>> THEN [ok |-> TRUE, out |-> <<>>]
    ELSE IF Head(s) = "}" THEN BadParse
    ELSE IF Head(s) # "{"
    THEN [ok |-> FlatParse(Tail(s)).ok, out |-> <<Head(s)>> \o FlatParse(Tail(s)).out]
    ELSE LET dbl == Len(s) >= 2 /\ s[2] = "{"
             open == IF dbl THEN 2 ELSE 1
             K == {k \in (open + 1)..Len(s) : s[k] = "}"}
         IN  IF K = {} THEN BadParse
             ELSE LET k == CHOOSE k \in K : \A j \in K : k <= j
                      x == SubSeq(s, open + 1, k - 1)
                      rest == FlatParse(SubSeq(s, k + open, Len(s)))
                  IN  IF \E i \in 1..Len(x) : x[i] = "{" THEN BadParse
                      ELSE IF dbl /\ ~(k + 1 <= Len(s) /\ s[k + 1] = "}") THEN BadParse
                      ELSE [ok |-> rest.ok,
                            out |-> (IF dbl THEN Upper(x) ELSE Lower(x)) \o rest.out]

Stripped == {" ", "_", ".", "-"}

\* t occurs in s as a run of consecutive characters.
IsSubstring(t, s) == \E i \in 0..Len(s) : StartsWith(s, t, i)

\* C12: no component of the result of strip_folders begins or ends with
\* whitespace, underscore, period or hyphen, every component is a run of
\* consecutive characters of a component of the input, and "__Show.Name--"
\* becomes "Show.Name".
C12_FolderStripping ==
    cstage = "stripped" =>
        LET comps == Split(cpath, "/")
            incomps == Split(cin, "/")
        IN  /\ \A i \in 1..Len(comps) :
                   comps[i] # <<>> =>
                       /\ comps[i][1] \notin Stripped
                       /\ comps[i][Len(comps[i])] \notin Stripped
                       /\ \E j \in 1..Len(incomps) : IsSubstring(comps[i], incomps[j])
            /\ cin = ShowNameExample =>
                   cpath = <<"S", "h", "o", "w", ".", "N", "a", "m", "e">>

(***************************************************************************)
(* Claims about the whole cleanup (SpecNorm), continued                    *)
(***************************************************************************)
UpExample == <<"%", "u", "p", "/", "X", ".", "m">>

\* C13: a leading template component %up survives the cleanup: the cleaned
\* relative path of "%up/X.m" is "../X.m", whose first component is the
\* parent-directory marker.
C13_ParentToken ==
    (cstage = "done" /\ cpass = 1 /\ cin = UpExample) =>
        cpath = <<".", ".", "/", "X", ".", "m">>

\* The value the finished mapping gives a specifier.
ValueOf(key) == The({ mapping[i].value.v : i \in { j \in DOMAIN mapping : mapping[j].key = key } })

HasKey(key) == \E i \in DOMAIN mapping : mapping[i].key = key

\* A decimal number written with at least two digits.
TwoDigits(k) == IF k < 10 THEN <<"0">> \o Str(k) ELSE Str(k)

RECURSIVE JoinNumbers(_, _, _)
JoinNumbers(items, S, padded) ==
    IF Len(items) = 1
    THEN (IF padded THEN TwoDigits(items[1]) ELSE Str(items[1]))
    ELSE (IF padded THEN TwoDigits(items[1]) ELSE Str(items[1])) \o S
           \o JoinNumbers(Tail(items), S, padded)

SeriesBuiltWithEpisodeList ==
    /\ bpc = "done"
    /\ type = "series"
    /\ "episode" \in DOMAIN guess
    /\ guess["episode"].list

\* C14: for a series whose episode is a list e1..en and separator S, mode
\* range gives %e = e1 S en and %0e the same with both numbers padded to two
\* digits; mode list gives %e all numbers joined by S and %0e all padded
\* numbers joined by S ([1,2,3] with "-": 1-3, 01-03, 1-2-3, 01-02-03).
C14_MultiEpisode ==
    SeriesBuiltWithEpisodeList =>
        LET items == guess["episode"].items
            S == episode_separator
            e1 == items[1]
            en == items[Len(items)]
        IN  /\ multiple_episodes = "range" =>
                /\ ValueOf(<<"%", "e">>) = Str(e1) \o S \o Str(en)
                /\ ValueOf(<<"%", "0", "e">>) = TwoDigits(e1) \o S \o TwoDigits(en)
            /\ multiple_episodes = "list" =>
                /\ ValueOf(<<"%", "e">>) = JoinNumbers(items, S, FALSE)
                /\ ValueOf(<<"%", "0", "e">>) = JoinNumbers(items, S, TRUE)
            /\ (items = <<1, 2, 3>> /\ S = <<"-">>) =>
                /\ multiple_episodes = "range" =>
                    ValueOf(<<"%", "e">>) = <<"1", "-", "3">> /\ ValueOf(<<"%", "0", "e">>) = <<"0", "1", "-", "0", "3">>
                /\ multiple_episodes = "list" =>
                    ValueOf(<<"%", "e">>) = <<"1", "-", "2", "-", "3">> /\ ValueOf(<<"%", "0", "e">>) = <<"0", "1", "-", "0", "2", "-", "0", "3">>

C14_Witness ==
    /\ SeriesBuiltWithEpisodeList
    /\ guess["episode"].items = <<1, 2, 3>>
    /\ episode_separator = <<"-">>
    /\ multiple_episodes = "range"
    /\ ValueOf(<<"%", "e">>) = <<"1", "-", "3">>
    /\ ValueOf(<<"%", "0", "e">>) = <<"0", "1", "-", "0", "3">>

\* C15: when the builder is done, a four-digit year d1d2d3d4 gives the
\* 2-digit decade d3 0 and the 4-digit decade d1d2d3 0 (2024: 20 and 2020);
\* an absent (empty) year gives the empty string for both.
C15_Decades ==
    bpc = "done" =>
        /\ "year" \in DOMAIN guess =>
            LET y == Str(guess["year"])
            IN  /\ Len(y) = 4
                /\ ValueOf(<<"%", "d", "e", "c", "a", "d", "e">>) = <<y[3], "0">>
                /\ ValueOf(<<"%", "0", "d", "e", "c", "a", "d", "e">>) = <<y[1], y[2], y[3], "0">>
                /\ guess["year"] = 2024 =>
                    ValueOf(<<"%", "d", "e", "c", "a", "d", "e">>) = <<"2", "0">> /\ ValueOf(<<"%", "0", "d", "e", "c", "a", "d", "e">>) = <<"2", "0", "2", "0">>
        /\ "year" \notin DOMAIN guess =>
            ValueOf(<<"%", "d", "e", "c", "a", "d", "e">>) = <<>> /\ ValueOf(<<"%", "0", "d", "e", "c", "a", "d", "e">>) = <<>>

C15_Witness ==
    /\ bpc = "done"
    /\ "year" \in DOMAIN guess
    /\ guess["year"] = 2024
    /\ ValueOf(<<"%", "d", "e", "c", "a", "d", "e">>) = <<"2", "0">>
    /\ ValueOf(<<"%", "0", "d", "e", "c", "a", "d", "e">>) = <<"2", "0", "2", "0">>

\* The specifiers derived from an attribute of the guess.
DerivedKeys(attr) ==
    CASE attr = "title" ->
            IF type = "series" THEN {<<"%", "s", "n">>, <<"%", "s", ".", "n">>, <<"%", "s", "_", "n">>, <<"%", "s", "N">>, <<"%", "s", ".", "N">>, <<"%", "s", "_", "N">>}
            ELSE {<<"%", "t", "i", "t", "l", "e">>, <<"%", ".", "t", "i", "t", "l", "e">>, <<"%", "_", "t", "i", "t", "l", "e">>, <<"%", "t">>, <<"%", ".", "t">>, <<"%", "_", "t">>, <<"%", "t", "T">>, <<"%", "t", ".", "T">>, <<"%", "t", "_", "T">>}
      [] attr = "year" -> {<<"%", "y">>, <<"%", "d", "e", "c", "a", "d", "e">>, <<"%", "0", "d", "e", "c", "a", "d", "e">>}
      [] attr = "season" -> {<<"%", "s">>, <<"%", "0", "s">>}
      [] attr = "episode" -> {<<"%", "e">>, <<"%", "0", "e">>}
      [] attr = "episode_title" -> {<<"%", "e", "n">>, <<"%", "e", ".", "n">>, <<"%", "e", "_", "n">>, <<"%", "e", "N">>, <<"%", "e", ".", "N">>, <<"%", "e", "_", "N">>}
      [] attr = "source" -> {<<"%", "q", "f">>}
      [] attr = "screen_size" -> {<<"%", "q", "s", "s">>}
      [] attr = "video_codec" -> {<<"%", "q", "v", "c">>}
      [] attr = "audio_codec" -> {<<"%", "q", "a", "c">>}
      [] attr = "audio_channels" -> {<<"%", "q", "a", "h">>}
      [] attr = "release_group" -> {<<"%", "q", "r", "g">>}
      [] attr = "imdb" -> {<<"%", "i", "m", "d", "b">>}
      [] attr = "cpimdb" -> {<<"%", "c", "p", "i", "m", "d", "b">>}

OptionalAttributes ==
    {"title", "year", "source", "screen_size", "video_codec", "audio_codec",
     "audio_channels", "release_group"}
      \cup (IF type = "series" THEN {"season", "episode", "episode_title"}
            ELSE {"imdb", "cpimdb"})

C16_ExceptPadded ==
    bpc = "done" =>
        \A attr \in OptionalAttributes \ DOMAIN guess :
            \A key \in DerivedKeys(attr) \ {<<"%", "0", "s">>, <<"%", "0", "e">>} : HasKey(key) /\ ValueOf(key) = <<>>

\* Two paths that are the same when letter case is ignored.
EqualIgnoringCase(a, b) ==
    /\ Len(a) = Len(b)
    /\ \A i \in 1..Len(a) : LowerChar(a[i]) = LowerChar(b[i])

\* C17: construct_path returns the "no rename" value whenever the computed
\* destination path equals the source path when letter case is ignored, and
\* the computed path whenever the two differ in anything else.
C17_NoOpDetection ==
    jpc = "returned" =>
        /\ EqualIgnoringCase(filename, new_path) => result = [kind |-> "none"]
        /\ ~EqualIgnoringCase(filename, new_path) =>
            result = [kind |-> "path", new |-> new_path]

C17_Witness ==
    /\ jpc = "returned"
    /\ filename # new_path
    /\ EqualIgnoringCase(filename, new_path)
    /\ result = [kind |-> "none"]

\* The template of the file the separator was last inferred for.
CurrentFormat == IF type = "movie" THEN movies_format ELSE series_format

\* The part of a template after its last "/".
FileNamePart(f) ==
    LET I == {i \in 1..Len(f) : f[i] = "/"}
    IN  IF I = {} THEN f
        ELSE SubSeq(f, (CHOOSE i \in I : \A k \in I : k <= i) + 1, Len(f))

HasAt(f, x) == \E i \in 1..(Len(f) - Len(x) + 1) : SubSeq(f, i, i + Len(x) - 1) = x

Dotted(f) == \E x \in {<<"%", ".", "t">>, <<"%", "s", ".", "n">>, <<"%", "s", ".", "N">>} : HasAt(f, x)

Underscored(f) == \E x \in {<<"%", "_", "t">>, <<"%", "s", "_", "n">>, <<"%", "s", "_", "N">>} : HasAt(f, x)

\* C18 as stated: after each file the separator is "." if the file's template
\* contains a dotted-style specifier anywhere, otherwise "_" if it contains an
\* underscored-style one, otherwise a space, whatever the previous file's was.
C18_SeparatorOfTemplate ==
    type # "" =>
        dupe_separator = IF Dotted(CurrentFormat) THEN <<".">>
                         ELSE IF Underscored(CurrentFormat) THEN <<"_">>
                         ELSE <<" ">>

\* C18 amended: the same of the file-name part of the template, the part
\* after its last "/".
C18_SeparatorOfFileName ==
    type # "" =>
        dupe_separator = IF Dotted(FileNamePart(CurrentFormat)) THEN <<".">>
                         ELSE IF Underscored(FileNamePart(CurrentFormat)) THEN <<"_">>
                         ELSE <<" ">>

C18_Witness ==
    /\ type = "movie"
    /\ movies_format = <<"%", ".", "t", "/", "%", "_", "t">>
    /\ dupe_separator = <<"_">>

\* The position of the last hyphen of a name, 0 if it has none.
LastHyphen(d) ==
    IF \E i \in 1..Len(d) : d[i] = "-"
    THEN CHOOSE i \in 1..Len(d) : d[i] = "-" /\ \A k \in (i + 1)..Len(d) : d[k] # "-"
    ELSE 0

LetterOrDigit(c) == c \in {Ascii[i] : i \in (17..26) \cup (34..59) \cup (66..91)}

\* A release identifier followed by "-" and its release-group token, with
\* nothing after it and no white space around it; the token is not a
\* configured noise word.
ReleaseNameWithoutNoise(d, words) ==
    /\ LastHyphen(d) \in 2..(Len(d) - 1)
    /\ \A k \in (LastHyphen(d) + 1)..Len(d) : LetterOrDigit(d[k])
    /\ d[1] # " "
    /\ \A i \in DOMAIN words :
        \/ words[i] = <<>>
        \/ Len(words[i]) > Len(d) - LastHyphen(d)
        \/ Lower(SubSeq(d, LastHyphen(d) + 1, LastHyphen(d) + Len(words[i])))
             # Lower(words[i])

\* C19: for the pattern of the configured words and for the default pattern,
\* a name that is a release identifier followed by its hyphen-delimited
\* release-group token, with no noise after it, is returned unchanged as the
\* plain result, also when the identifier itself contains a hyphen.
C19_FixedPoint ==
    (dpc = "done" /\ ReleaseNameWithoutNoise(dirname, deobfuscate_words)) =>
        deob.dirname = dirname

\* The same for the pattern of the configured words alone.
C19_ConfiguredWords ==
    (dpc = "done" /\ deobfuscate_words # <<<<>>>>
       /\ ReleaseNameWithoutNoise(dirname, deobfuscate_words)) =>
        deob.dirname = dirname

\* The same for the default pattern and identifiers without a hyphen.
C19_DefaultOneHyphen ==
    (dpc = "done" /\ deobfuscate_words = <<<<>>>>
       /\ ReleaseNameWithoutNoise(dirname, deobfuscate_words)
       /\ \A k \in 1..(LastHyphen(dirname) - 1) : dirname[k] # "-") =>
        deob.dirname = dirname

\* The trailing "-token" of a name: the longest rest after a hyphen that is a
\* configured release group when case is ignored, or else the letters and
\* digits after the last hyphen.  The position of its hyphen, 0 if none.
TokenHyphen(d, groups) ==
    LET C == { st \in 1..Len(d) :
                 d[st] = "-" /\ \E i \in DOMAIN groups :
                     EqualIgnoringCase(SubSeq(d, st + 1, Len(d)), groups[i]) }
    IN  IF C # {} THEN CHOOSE st \in C : \A y \in C : st <= y
        ELSE IF LastHyphen(d) \in 1..(Len(d) - 1)
                /\ \A k \in (LastHyphen(d) + 1)..Len(d) : LetterOrDigit(d[k])
        THEN LastHyphen(d)
        ELSE 0

UpperWithSmallI(t) ==
    [k \in 1..Len(t) |-> IF t[k] \in {"i", "I"} THEN "i" ELSE UpperChar(t[k])]

\* C20: the release-group term rewrites the trailing "-token" to the
\* configured spelling if the token is a configured release group when case
\* is ignored, and otherwise to the token uppercased with every I written
\* lowercase (-rarbg: -RARBG, -sinners: -SiNNERS); the rest of the name, and
\* a name without such a token, is unchanged.
C20_GroupCasing ==
    dpc = "done" =>
        LET st == TokenHyphen(dirname, release_groups)
            token == SubSeq(dirname, st + 1, Len(dirname))
        IN  /\ st = 0 => deob.dirname = dirname
            /\ st > 0 =>
                /\ SubSeq(deob.dirname, 1, st) = SubSeq(dirname, 1, st)
                /\ \/ /\ \E i \in DOMAIN release_groups :
                            EqualIgnoringCase(token, release_groups[i])
                      /\ \E i \in DOMAIN release_groups :
                            /\ EqualIgnoringCase(token, release_groups[i])
                            /\ deob.dirname = SubSeq(dirname, 1, st) \o release_groups[i]
                   \/ /\ ~\E i \in DOMAIN release_groups :
                            EqualIgnoringCase(token, release_groups[i])
                      /\ deob.dirname = SubSeq(dirname, 1, st) \o UpperWithSmallI(token)
            /\ dirname = <<"M", "o", "v", "i", "e", ".", "2", "0", "0", "2", "-", "r", "a", "r", "b", "g">> => deob.dirname = <<"M", "o", "v", "i", "e", ".", "2", "0", "0", "2", "-", "R", "A", "R", "B", "G">>
            /\ dirname = <<"M", "o", "v", "i", "e", ".", "2", "0", "0", "2", "-", "s", "i", "n", "n", "e", "r", "s">> => deob.dirname = <<"M", "o", "v", "i", "e", ".", "2", "0", "0", "2", "-", "S", "i", "N", "N", "E", "R", "S">>

C20_Witness ==
    /\ dpc = "done"
    /\ dirname = <<"M", "o", "v", "i", "e", ".", "2", "0", "0", "2", "-", "s", "i", "n", "n", "e", "r", "s">>
    /\ release_groups = <<<<>>>>
    /\ deob.dirname = <<"M", "o", "v", "i", "e", ".", "2", "0", "0", "2", "-", "S", "i", "N", "N", "E", "R", "S">>

\* A format that ends, trailing "}" ignored, with the dot and the extension
\* specifier in one of its casings.
EndsWithExtSpecifier(f) ==
    LET g == IF f # <<>> /\ f[Len(f)] = "}"
             THEN (IF Len(f) > 1 /\ f[Len(f) - 1] = "}"
                   THEN SubSeq(f, 1, Len(f) - 2) ELSE SubSeq(f, 1, Len(f) - 1))
             ELSE f
    IN  /\ Len(g) >= 5
        /\ SubSeq(g, Len(g) - 4, Len(g)) \in {<<".", "%", "e", "x", "t">>, <<".", "%", "E", "X", "T">>, <<".", "%", "E", "x", "t">>}

\* How often the extension .mkv, in any casing, occurs in a path.
ExtCount(p) ==
    Cardinality({ i \in 1..(Len(p) - 3) : Lower(SubSeq(p, i, i + 3)) = <<".", "m", "k", "v">> })

\* C21: the extension specifier is appended to the format exactly when the
\* format does not end with one, and the cleaned destination of a format that
\* ends with one, in any casing, carries the file extension once.
C21_ExtensionOnce ==
    /\ bpc \in {"subst", "cleanup"} =>
         (path # Replace(movies_format, <<"\\">>, <<"/">>)
            <=> ~EndsWithExtSpecifier(movies_format))
    /\ (bpc = "cleanup" /\ cstage = "done" /\ EndsWithExtSpecifier(movies_format)) =>
         ExtCount(cpath) = 1

\* The same of the one casing the code compares with.
C21_LowerCaseOnly ==
    (bpc = "cleanup" /\ cstage = "done"
       /\ \E k \in 0..2 : Len(movies_format) >= 5 + k
             /\ SubSeq(movies_format, Len(movies_format) - 4 - k,
                       Len(movies_format) - k) = <<".", "%", "e", "x", "t">>
             /\ \A j \in (Len(movies_format) - k + 1)..Len(movies_format) :
                   movies_format[j] = "}") =>
        ExtCount(cpath) = 1

\* Position of the first look-up of the given kind for path p in call c, 0
\* when there is none.
FirstProbe(c, kind, p) ==
    IF \E j \in 1..Len(c.probes) : c.probes[j] = [kind |-> kind, path |-> p]
    THEN CHOOSE j \in 1..Len(c.probes) :
            /\ c.probes[j] = [kind |-> kind, path |-> p]
            /\ \A m \in 1..(j - 1) : c.probes[m] # [kind |-> kind, path |-> p]
    ELSE 0

\* The candidate destinations call c looked up.
Candidates(c) == {c.probes[j].path : j \in 1..Len(c.probes)}

\* C22 as stated: for every candidate destination of rename and unique_name
\* the list of the paths produced in this run is consulted before the
\* existence check on the file system is made.
C22_ListBeforeDisk ==
    \A i \in 1..Len(fs.calls) : \A p \in Candidates(fs.calls[i]) :
        /\ FirstProbe(fs.calls[i], "list", p) > 0
        /\ FirstProbe(fs.calls[i], "disk", p) > 0 =>
              FirstProbe(fs.calls[i], "list", p) < FirstProbe(fs.calls[i], "disk", p)

\* C22, amended: for every candidate destination the existence check on the
\* file system is made first; the list of the paths produced in this run is
\* consulted after it, and it is consulted whenever the path is not on disk,
\* so that a destination is used as free only after both look-ups.
C22_DiskBeforeList ==
    \A i \in 1..Len(fs.calls) : \A p \in Candidates(fs.calls[i]) :
        LET c == fs.calls[i]
        IN  /\ FirstProbe(c, "disk", p) > 0
            /\ FirstProbe(c, "list", p) > 0 =>
                  FirstProbe(c, "disk", p) < FirstProbe(c, "list", p)
            /\ p \notin c.existedBefore => FirstProbe(c, "list", p) > 0
            /\ (~c.raised /\ p = c.dst /\ ~HasOp(c, "remove")) =>
                  /\ FirstProbe(c, "list", p) = FirstProbe(c, "disk", p) + 1
                  /\ p \notin c.existedBefore /\ ~InList(p, c.mdstBefore)

\* A call that went through unique_name: the asked name was only in the
\* list, the name with (2) only on disk, and the file ended at the name
\* with (3) after six look-ups.
C22_Witness ==
    \E i \in 1..Len(fs.calls) :
        LET c == fs.calls[i]
        IN  /\ ~c.raised /\ ~c.onDisk /\ c.inMoved
            /\ c.dst = SuffixedName(c.new, c.sep, 3)
            /\ Len(c.probes) >= 6

\* The entry of the table with key k is a deprecated one.
DeprecatedKey(k) == \E j \in 1..Len(mapping) : mapping[j].key = k /\ mapping[j].msg

\* The keys of the deprecated entries selected so far, in template order.
RECURSIVE DeprecatedPicks(_)
DeprecatedPicks(ps) ==
    IF ps = <<>> THEN <<>>
    ELSE (IF DeprecatedKey(ps[1].key) THEN <<ps[1].key>> ELSE <<>>)
         \o DeprecatedPicks(Tail(ps))

\* C23: path_subst warns only when the entry selected for substitution is a
\* deprecated one, and for a given deprecated specifier the warning is
\* emitted at most once, however often the specifier occurs in the template.
C23_WarnOnce ==
    /\ \A i \in 1..Len(warnings) : InList(warnings[i], DeprecatedPicks(picks))
    /\ \A i, j \in 1..Len(warnings) : warnings[i] = warnings[j] => i = j

\* What the loop does: one warning for every selection of a deprecated
\* entry, in template order, and none otherwise.
C23_WarnPerSelection == spc \in {"scan", "done"} => warnings = DeprecatedPicks(picks)

\* The output the statement describes for template p from position i on: at
\* a "%" where an entry matches, the value of the first such entry as it is,
\* continuing after the literal; otherwise the character itself, continuing
\* one character on.
RECURSIVE PiecesInOrder(_, _, _)
PiecesInOrder(m, p, i) ==
    IF i >= Len(p) THEN <<>>
    ELSE IF p[i + 1] = "%" /\ FirstMatch(m, p, i) > 0
         THEN PieceStr(m[FirstMatch(m, p, i)].value)
              \o PiecesInOrder(m, p, i + Len(m[FirstMatch(m, p, i)].key))
         ELSE <<p[i + 1]>> \o PiecesInOrder(m, p, i + 1)

\* C24: path_subst is a single pass: every substituted value is emitted as
\* it is, also when it contains the text of a specifier; a "%" at which no
\* literal matches is copied with the scan advancing one character; every
\* other character is copied; the output is the concatenation of these
\* pieces in template order.
C24_SinglePass ==
    spc \in {"scan", "done"} =>
        /\ n <= Len(path)
        /\ SubstResult \o PiecesInOrder(mapping, path, n) = PiecesInOrder(mapping, path, 0)
        /\ spc = "done" => SubstResult = PiecesInOrder(mapping, path, 0)

\* A finished scan in which the value "%s" was substituted while %s is a
\* specifier of the table, and a "%" without match was copied: the output
\* holds the text "%s" of the value.
C24_Witness ==
    /\ spc = "done"
    /\ \E j \in 1..Len(mapping) : mapping[j].key = <<"%", "s">>
    /\ \E i \in 1..Len(picks) : picks[i].key = <<"%", "n">> /\ picks[i].pos = 0
    /\ \E i \in 1..Len(picks) : picks[i].key = <<>>
    /\ Len(SubstResult) >= 2 /\ SubSeq(SubstResult, 1, 2) = <<"%", "s">>

\* The reference title of the case correction.
ReferenceTitle == get_titles(title_name, TRUE)[1]

\* min(length of the prefix before the resolution, length of the reference
\* title); 0 without a resolution.
CommonLength ==
    IF title_match_len(dirname) < 0 THEN 0
    ELSE IF title_match_len(dirname) < Len(ReferenceTitle)
         THEN title_match_len(dirname) ELSE Len(ReferenceTitle)

\* C25: with a reference title and a name that is not properly cased
\* already, the overlay gives a string of the length of the name that equals
\* it when case is ignored; a character is changed only below the common
\* length of the prefix before the resolution and of the reference title,
\* exactly where name and reference agree ignoring case and differ in case,
\* and there it is the character of the reference; from the common length
\* on nothing is changed.
C25_CaseOverlay ==
    dpc = "terms" =>
        /\ Len(deob) = Len(dirname)
        /\ Lower(deob) = Lower(dirname)
        /\ \A i \in 1..Len(dirname) :
              IF /\ i <= CommonLength
                 /\ dirname[i] # ReferenceTitle[i]
                 /\ LowerChar(dirname[i]) = LowerChar(ReferenceTitle[i])
              THEN deob[i] = ReferenceTitle[i]
              ELSE deob[i] = dirname[i]

\* An overlay that changed a letter of the prefix and left a letter after
\* the common length that the title would have changed.
C25_Witness ==
    /\ dpc = "terms"
    /\ \E i \in 1..Len(dirname) : deob[i] # dirname[i]
    /\ \E i \in 1..Len(dirname) :
          /\ i > CommonLength /\ i <= Len(ReferenceTitle)
          /\ dirname[i] # ReferenceTitle[i]
          /\ LowerChar(dirname[i]) = LowerChar(ReferenceTitle[i])

\* The release name is made of tags in their canonical spelling.
CanonicalSpelling ==
    \E tags \in TagLists(MaxTags) :
        /\ dirname = <<"a">> \o tags \o <<"-", "G", "R", "P">>
        /\ \A t \in TagSpellings \ CanonicalTags :
              ~Contains(tags, t) \/ \E c \in CanonicalTags : Contains(c, t)

\* C26: the list of substitutions applied to its own output changes nothing,
\* and a name whose tags are in canonical spelling passes through the list
\* unchanged.
C26_TagsIdempotent ==
    dpc = "done" =>
        /\ TermsFrom(deob, release_groups, 1) = deob
        /\ CanonicalSpelling => deob = dirname

\* What holds: for names without a bit depth the list changes nothing in its
\* own output.
C26_IdempotentWithoutBitDepth ==
    (dpc = "done" /\ ~Contains(Lower(dirname), <<"b", "i", "t">>)) =>
        TermsFrom(deob, release_groups, 1) = deob

\* C27: when guess_info returns a record with vtype series, the record has a
\* season and an episode: an episode without episode number was made a
\* movie, a movie with a part was made an episode numbered by the part, and
\* a missing season or one equal to the year was set to 1.
C27_SeriesHasSeasonAndEpisode ==
    (bpc = "guessed" /\ type = "series") =>
        /\ "season" \in DOMAIN guess /\ "episode" \in DOMAIN guess
        /\ "episode" \notin DOMAIN guess["guessit"] =>
              "part" \in DOMAIN guess /\ guess["episode"] = guess["part"]
        /\ ("season" \notin DOMAIN guess["guessit"]
               \/ /\ "year" \in DOMAIN guess["guessit"]
                  /\ guess["guessit"]["season"] = guess["guessit"]["year"]) =>
              guess["season"] = 1

\* A record guessit typed as an episode without episode number, with a part
\* and without season, that came back as a series: episode 2 of season 1.
C27_Witness ==
    /\ bpc = "guessed" /\ type = "series"
    /\ Get(guess["guessit"], "type", "") = "episode"
    /\ DOMAIN guess["guessit"] \cap {"episode", "season"} = {}
    /\ guess["episode"] = 2 /\ guess["season"] = 1

SpansOfDestination == IdentifyingSpans(SplitExt(Basename(new_path))[1], guess, 1)

\* No two of the spans share a character of the stem.
SpansApart ==
    \A i, j \in 1..Len(SpansOfDestination) :
        i # j => \/ SpansOfDestination[i][2] <= SpansOfDestination[j][1]
                 \/ SpansOfDestination[j][2] <= SpansOfDestination[i][1]

\* C29: the pattern construct_filename_glob builds for a destination matches
\* the file name of that destination, also when two attributes are found at
\* the same or at overlapping places of the stem.
C29_GlobSelfMatch ==
    jpc = "globbed" => GlobMatches(result.name, Basename(new_path))

\* What holds: the pattern matches the destination when no two attributes
\* are found at places that overlap.
C29_SelfMatchWhenApart ==
    (jpc = "globbed" /\ SpansApart) => GlobMatches(result.name, Basename(new_path))

\* Every option of required_options is present.
RequiredPresent == \A i \in 1..Len(required_options) : required_options[i] \in DOMAIN environ

\* An option the initialisation reads without a default is missing.
ReadOptionMissing == \E i \in 1..Len(options_read) : options_read[i] \notin DOMAIN environ

\* C30: with every required option present the initialisation of the
\* options completes without error, and a missing option that the
\* initialisation reads without a default leads to the exit with status 94,
\* never to an uncaught failure.
C30_RequiredOptionsSuffice ==
    pc \in {"initialised", "exit", "failed"} =>
        /\ RequiredPresent => pc = "initialised"
        /\ ReadOptionMissing => pc = "exit" /\ exit_status = POSTPROCESS_ERROR

\* What holds: a missing required option ends the script with status 94
\* before any option is read.
C30_MissingRequiredExits ==
    (pc # "required" /\ ~RequiredPresent) => pc = "exit" /\ exit_status = POSTPROCESS_ERROR

=============================================================================
